---- MODULE Spec2Model ----
(***************************************************************************)
(* Norway_Automation: the Lovdata scrape that classifies consolidated laws *)
(* (parse_law_xml) and reconciles them, with the regulations that refer to *)
(* them, into the "Norway Trial" sheet (run_scrape).                       *)
(*                                                                         *)
(* The model follows src/lib/Norway_Automation.py.  The specifications:    *)
(*   Spec          the ledger: repeated runs of run_scrape on the sheet    *)
(*   SpecClassify  the classifier: parse_law_xml on bounded evidence       *)
(*   SpecShift     the two coordinate shifts on bounded insert lists       *)
(*   SpecDerive    the identifiers and urls derived from archive names     *)
(*   SpecHandler   one request: the parse loops with a malformed document, *)
(*                 the ledger calls with one that raises, the response     *)
(***************************************************************************)
EXTENDS Integers, Sequences, FiniteSets, TLC

VARIABLES
  corpus,     \* the upstream documents that exist in this behaviour
  sheet,      \* the tab's rows from row 3 down (row r is sheet[r - 2])
  last,       \* what the last run of run_scrape read, planned and did
  runs,       \* number of runs of run_scrape so far
  evidence,   \* classifier: the document handed to parse_law_xml
  verdict,    \* classifier: what parse_law_xml returned for it
  call,       \* the arguments of a call of one of the other functions
  ret         \* what that call returned

vars == <<corpus, sheet, last, runs, evidence, verdict, call, ret>>

ledgerVars == <<corpus, sheet, last, runs>>
classifyVars == <<evidence, verdict>>

(***************************************************************************)
(* Bounds of the model.                                                    *)
(***************************************************************************)
MaxRuns == 2
\* longest list of inserts handed to the coordinate shifts
MaxOps == 2
\* last row of the table the coordinate shifts are compared with
ShiftTableLast == 21

(***************************************************************************)
(* Sequence helpers.                                                       *)
(***************************************************************************)
Range(s) == {s[i] : i \in 1..Len(s)}

RECURSIVE SumCounts(_)
SumCounts(ops) == IF ops = <<>> THEN 0 ELSE Head(ops)[2] + SumCounts(Tail(ops))

RECURSIVE Flatten(_)
Flatten(ss) == IF ss = <<>> THEN <<>> ELSE Head(ss) \o Flatten(Tail(ss))

\* The subsequence of s at the positions in keep, in order.
RECURSIVE Pick(_, _, _)
Pick(s, keep, i) ==
  IF i > Len(s) THEN <<>>
  ELSE (IF i \in keep THEN <<s[i]>> ELSE <<>>) \o Pick(s, keep, i + 1)

(***************************************************************************)
(* Dates.  parse_iso_date gives None for "" and for text that is not a     *)
(* date; the sort of kept_laws replaces None by date.min (ordinal 0 here). *)
(***************************************************************************)
parse_iso_date(d) ==
  CASE d = "2019-01-01" -> 1
    [] d = "2020-02-01" -> 2
    [] d = "2021-03-01" -> 3
    [] OTHER -> 0

\* x.get(...).replace("NL/", "") on the identifiers of the corpus.
strip_NL(id) ==
  CASE id = "NL/lov/2020-02-01-2" -> "lov/2020-02-01-2"
    [] OTHER -> id

\* str.lower() on the marker column's values.
lower(m) ==
  CASE m = "Primary" -> "primary"
    [] m = "Secondary" -> "secondary"
    [] OTHER -> m

(***************************************************************************)
(* Upstream documents, as they stand after parsing and URL derivation      *)
(* (run_scrape, the two parse loops).  A law's url is "" exactly when its  *)
(* file name does not match nl-<date>-<n>.xml and it declares no id, and   *)
(* then its id is "" too; a date of "" needs a file name that does not     *)
(* match, so such a law's url comes from its declared id.                  *)
(***************************************************************************)
U_A == "https://lovdata.no/dokument/NL/lov/2021-03-01-1"
U_B == "https://lovdata.no/dokument/NL/lov/2020-02-01-2"
U_D == "https://lovdata.no/dokument/NL/lov/2019-01-01-7"
U_RX == "https://lovdata.no/dokument/SF/forskrift/2021-03-01-10"
U_RY == "https://lovdata.no/dokument/SF/forskrift/2020-02-01-20"

LawA == [title |-> "Law A", date |-> "2021-03-01", id |-> "lov/2021-03-01-1",
         url |-> U_A, status |-> "in_force"]
LawB == [title |-> "Law B", date |-> "2020-02-01", id |-> "NL/lov/2020-02-01-2",
         url |-> U_B, status |-> "ambiguous"]
\* a second file with the file-name url and the date of LawA, declaring another id
LawA2 == [title |-> "Law A bis", date |-> "2021-03-01", id |-> "lov/2021-03-01-9",
          url |-> U_A, status |-> "in_force"]
\* the file-name url of LawA under another promulgation date
LawAOld == [title |-> "Law A old", date |-> "2019-01-01", id |-> "lov/2021-03-01-1",
            url |-> U_A, status |-> "in_force"]
\* no derivable url: the file name does not match and the document declares no id
LawNoUrl == [title |-> "Law N", date |-> "2020-02-01", id |-> "",
             url |-> "", status |-> "in_force"]
\* no date: the file name does not match and the document has no datePromulgated
LawNoDate == [title |-> "Law D", date |-> "", id |-> "lov/2019-01-01-7",
              url |-> U_D, status |-> "ambiguous"]
LawOff == [title |-> "Law O", date |-> "2019-01-01", id |-> "lov/2019-01-01-7",
           url |-> U_D, status |-> "not_in_force"]
LawLater == [title |-> "Law F", date |-> "2021-03-01", id |-> "lov/2019-01-01-7",
             url |-> U_D, status |-> "future"]

RegX == [title |-> "Reg X", date |-> "2021-03-01", url |-> U_RX,
         refs |-> {"lov/2021-03-01-1", "lov/2020-02-01-2"}]
RegY == [title |-> "Reg Y", date |-> "2020-02-01", url |-> U_RY,
         refs |-> {"lov/2021-03-01-1", "lov/2021-03-01-9", "lov/2019-01-01-7"}]
\* a regulation with no derivable url
RegNoUrl == [title |-> "Reg N", date |-> "2020-02-01", url |-> "",
             refs |-> {"lov/2020-02-01-2"}]

\* The archives a behaviour draws its runs from: laws and regulations in
\* archive order.
Corpora ==
  { [laws |-> <<LawA, LawB, LawOff>>, regs |-> <<RegX, RegY>>],
    [laws |-> <<LawA, LawA2, LawB>>, regs |-> <<RegX, RegY>>],
    [laws |-> <<LawB, LawNoUrl, LawLater>>, regs |-> <<RegX, RegNoUrl>>],
    [laws |-> <<LawA, LawAOld, LawNoDate>>, regs |-> <<RegX, RegY>>] }

(***************************************************************************)
(* The sheet.  Rows 1 and 2 are the header and the template row; the model *)
(* keeps the rows from row 3 down.  A row holds the tracked columns        *)
(* C (title), H (date), S (url), M (marker), E (kind) and its background.  *)
(***************************************************************************)
TEMPLATE_ROW == 2
FIRST_ROW == 3

BlankRow == [title |-> "", date |-> "", url |-> "", m |-> "", e |-> "", bg |-> "template"]

RowOf(sh, r) == sh[r - TEMPLATE_ROW]
RowNums(sh) == {i + TEMPLATE_ROW : i \in 1..Len(sh)}

HasValue(row) ==
  row.title # "" \/ row.date # "" \/ row.url # "" \/ row.m # "" \/ row.e # ""

get_last_row(sh) ==
  LET used == {r \in RowNums(sh) : HasValue(RowOf(sh, r))}
  IN IF used = {} THEN TEMPLATE_ROW
     ELSE CHOOSE r \in used : \A q \in used : q <= r

(***************************************************************************)
(* read_existing_context: one walk over rows 3..last used row.  None (no   *)
(* enclosing Primary, or a Primary row without url) is written "".         *)
(***************************************************************************)
is_primary(row) == lower(row.m) = "primary"

RECURSIVE current_primary_url(_, _)
current_primary_url(sh, r) ==
  IF r < FIRST_ROW THEN ""
  ELSE IF is_primary(RowOf(sh, r)) THEN RowOf(sh, r).url
  ELSE current_primary_url(sh, r - 1)

RECURSIVE all_url_rows_from(_, _, _)
all_url_rows_from(sh, r, lastRow) ==
  IF r > lastRow THEN <<>>
  ELSE (IF RowOf(sh, r).url # "" THEN <<(<<r, RowOf(sh, r).url>>)>> ELSE <<>>)
       \o all_url_rows_from(sh, r + 1, lastRow)

RECURSIVE primary_rows_from(_, _, _)
primary_rows_from(sh, r, lastRow) ==
  IF r > lastRow THEN <<>>
  ELSE (IF is_primary(RowOf(sh, r))
        THEN <<[url |-> RowOf(sh, r).url, row |-> r]>> ELSE <<>>)
       \o primary_rows_from(sh, r + 1, lastRow)

\* a block that ends on its own Primary row
block_end_row_own(primary_rows, idx, initial_last_row) == primary_rows[idx].row

\* end_row of the idx-th Primary row: the row before the next Primary row, or
\* the last used row for the last one.
block_end_row(primary_rows, idx, initial_last_row) ==
  IF idx + 1 <= Len(primary_rows) THEN primary_rows[idx + 1].row - 1
  ELSE initial_last_row

read_existing_context(sh) ==
  LET initial_last_row == get_last_row(sh)
      rows == FIRST_ROW..initial_last_row
      primary_rows == primary_rows_from(sh, FIRST_ROW, initial_last_row)
  IN [ initial_last_row |-> initial_last_row,
       primary_pairs |->
         { <<RowOf(sh, r).date, RowOf(sh, r).url>> :
             r \in {q \in rows : /\ is_primary(RowOf(sh, q))
                                 /\ RowOf(sh, q).date # ""
                                 /\ RowOf(sh, q).url # ""} },
       regs_under_primary |->
         [ u \in {primary_rows[i].url : i \in 1..Len(primary_rows)} |->
             { RowOf(sh, r).url :
                 r \in {q \in rows : /\ ~is_primary(RowOf(sh, q))
                                     /\ u # ""
                                     /\ current_primary_url(sh, q) = u
                                     /\ RowOf(sh, q).url # ""} } ],
       all_url_rows |-> all_url_rows_from(sh, FIRST_ROW, initial_last_row),
       primary_blocks |->
         [ idx \in 1..Len(primary_rows) |->
             [ url |-> primary_rows[idx].url,
               row |-> primary_rows[idx].row,
               end_row |-> block_end_row(primary_rows, idx, initial_last_row) ] ] ]

\* regs_under_primary.get(law_url, set())
regs_under(ctx, law_url) ==
  IF law_url # "" /\ law_url \in DOMAIN ctx.regs_under_primary
  THEN ctx.regs_under_primary[law_url] ELSE {}

\* primary_block_by_url = {b["url"]: b for b in primary_blocks if b["url"]}:
\* of several blocks with one url the last one stays.
block_indexes(primary_blocks, law_url) ==
  {i \in 1..Len(primary_blocks) :
     primary_blocks[i].url # "" /\ primary_blocks[i].url = law_url}

has_primary_block(primary_blocks, law_url) ==
  block_indexes(primary_blocks, law_url) # {}

primary_block_by_url(primary_blocks, law_url) ==
  LET hits == block_indexes(primary_blocks, law_url)
  IN primary_blocks[CHOOSE i \in hits : \A j \in hits : j <= i]

(***************************************************************************)
(* run_scrape, the candidate set: kept_laws is the in_force and ambiguous  *)
(* laws, sorted by date, newest first (a stable sort: laws of one date     *)
(* keep their archive order); reg_map[law id] lists, in archive order, the *)
(* regulations whose text refers to that id.                               *)
(***************************************************************************)
\* a filter that drops only the laws that are not in force
is_kept_or_future(law) == law.status # "not_in_force"

is_kept(law) == law.status \in {"in_force", "ambiguous"}

RECURSIVE insert_by_date(_, _)
insert_by_date(sorted, law) ==
  IF sorted = <<>> THEN <<law>>
  ELSE IF parse_iso_date(Head(sorted).date) >= parse_iso_date(law.date)
       THEN <<Head(sorted)>> \o insert_by_date(Tail(sorted), law)
       ELSE <<law>> \o sorted

RECURSIVE sort_newest_first(_, _)
sort_newest_first(laws, sorted) ==
  IF laws = <<>> THEN sorted
  ELSE sort_newest_first(Tail(laws), insert_by_date(sorted, Head(laws)))

kept_laws_of(candidate_laws) ==
  sort_newest_first(SelectSeq(candidate_laws, is_kept), <<>>)

reg_map_get(regs, law_id_key) ==
  LET refers(reg) == law_id_key \in reg.refs
  IN SelectSeq(regs, refers)

(***************************************************************************)
(* run_scrape, the loop over kept_laws.  The loop's variables are the      *)
(* fields of st: output_rows_to_append, regs_to_insert_under_existing (a   *)
(* dict, kept as its entries in insertion order), ambiguous_positions_new, *)
(* scraped_urls and primary_pairs.                                         *)
(***************************************************************************)
law_is_existing(law_date, law_url, primary_pairs) ==
  law_date # "" /\ law_url # "" /\ <<law_date, law_url>> \in primary_pairs

\* d.setdefault(key, []).append(row)
dict_append(d, key, row) ==
  IF \E i \in 1..Len(d) : d[i].key = key
  THEN [i \in 1..Len(d) |->
          IF d[i].key = key THEN [d[i] EXCEPT !.rows = Append(@, row)] ELSE d[i]]
  ELSE Append(d, [key |-> key, rows |-> <<row>>])

\* whether the regulation is skipped as already listed under this primary
reg_is_duplicate(reg_url, existing_regs_for_this_law_sheet, seen_reg_urls_for_this_law_run) ==
  \/ reg_url # "" /\ reg_url \in existing_regs_for_this_law_sheet
  \/ reg_url # "" /\ reg_url \in seen_reg_urls_for_this_law_run

\* owner is not a cell: it remembers the law the row was queued under
reg_step(st, reg, law, existing, existing_regs) ==
  LET reg_url == reg.url
      st1 == IF reg_url # "" THEN [st EXCEPT !.scraped_urls = @ \cup {reg_url}] ELSE st
      reg_row == [type |-> "reg", title |-> reg.title, date |-> reg.date, url |-> reg_url,
                  owner |-> <<law.date, law.url>>]
  IN IF reg_is_duplicate(reg_url, existing_regs, st1.seen) THEN st1
     ELSE LET st2 == IF existing
                     THEN [st1 EXCEPT !.regs_to_insert_under_existing =
                                         dict_append(@, law.url, reg_row)]
                     ELSE [st1 EXCEPT !.output_rows_to_append = Append(@, reg_row)]
          IN IF reg_url # "" THEN [st2 EXCEPT !.seen = @ \cup {reg_url}] ELSE st2

RECURSIVE regs_loop(_, _, _, _, _)
regs_loop(st, regs_for_law, law, existing, existing_regs) ==
  IF regs_for_law = <<>> THEN st
  ELSE regs_loop(reg_step(st, Head(regs_for_law), law, existing, existing_regs),
                 Tail(regs_for_law), law, existing, existing_regs)

law_step(st, law, regs, ctx) ==
  LET law_url == law.url
      st1 == IF law_url # "" THEN [st EXCEPT !.scraped_urls = @ \cup {law_url}] ELSE st
      existing == law_is_existing(law.date, law_url, st.primary_pairs)
      law_row == [type |-> "law", title |-> law.title, date |-> law.date,
                  url |-> law_url, status |-> law.status]
      st2 == IF existing THEN st1
             ELSE [st1 EXCEPT
                     !.output_rows_to_append = Append(@, law_row),
                     !.ambiguous_positions_new =
                        IF law.status = "ambiguous"
                        THEN Append(@, Len(st1.output_rows_to_append)) ELSE @,
                     !.primary_pairs =
                        IF law.date # "" /\ law_url # ""
                        THEN @ \cup {<<law.date, law_url>>} ELSE @]
      regs_for_law == reg_map_get(regs, strip_NL(law.id))
  IN regs_loop([st2 EXCEPT !.seen = {}], regs_for_law, law, existing,
               regs_under(ctx, law_url))

RECURSIVE laws_loop(_, _, _, _)
laws_loop(st, kept_laws, regs, ctx) ==
  IF kept_laws = <<>> THEN st
  ELSE laws_loop(law_step(st, Head(kept_laws), regs, ctx), Tail(kept_laws), regs, ctx)

classify_new_documents(kept_laws, regs, ctx) ==
  laws_loop([ output_rows_to_append |-> <<>>,
              regs_to_insert_under_existing |-> <<>>,
              ambiguous_positions_new |-> <<>>,
              scraped_urls |-> {},
              primary_pairs |-> ctx.primary_pairs,
              seen |-> {} ],
            kept_laws, regs, ctx)

(***************************************************************************)
(* run_scrape, "Plan existing inserts" and "Plan append".                  *)
(***************************************************************************)
\* sorted(..., key=lambda x: x[0], reverse=True): stable, larger start rows first
RECURSIVE insert_by_start(_, _)
insert_by_start(sorted, x) ==
  IF sorted = <<>> THEN <<x>>
  ELSE IF Head(sorted).start >= x.start
       THEN <<Head(sorted)>> \o insert_by_start(Tail(sorted), x)
       ELSE <<x>> \o sorted

RECURSIVE sort_bottom_up(_, _)
sort_bottom_up(xs, sorted) ==
  IF xs = <<>> THEN sorted
  ELSE sort_bottom_up(Tail(xs), insert_by_start(sorted, Head(xs)))

\* an insertion on the last row of the block
insertion_row_on_end(block) == block.end_row

\* insertion_row = block["end_row"] + 1
insertion_row_of(block) == block.end_row + 1

plan_existing_inserts(st, ctx) ==
  LET d == st.regs_to_insert_under_existing
      found(e) == has_primary_block(ctx.primary_blocks, e.key)
      notFound(e) == ~found(e)
      lost == SelectSeq(d, notFound)
      hit == SelectSeq(d, found)
      blocks_with_regs ==
        sort_bottom_up(
          [i \in 1..Len(hit) |->
             [start |-> insertion_row_of(primary_block_by_url(ctx.primary_blocks, hit[i].key)),
              law_url |-> hit[i].key,
              rows |-> hit[i].rows]],
          <<>>)
      used == SelectSeq(blocks_with_regs, LAMBDA b : Len(b.rows) > 0)
  IN [ output_rows_to_append |->
         st.output_rows_to_append \o Flatten([i \in 1..Len(lost) |-> lost[i].rows]),
       insert_ops_existing |-> [i \in 1..Len(used) |-> <<used[i].start, Len(used[i].rows)>>],
       segments_existing |-> [i \in 1..Len(used) |-> [start |-> used[i].start,
                                                      law_url |-> used[i].law_url,
                                                      rows |-> used[i].rows]] ]

\* append_start_row, or 0 for None (nothing to append)
append_start_row_of(initial_last_row, total_inserted_existing, output_rows_to_append) ==
  IF output_rows_to_append = <<>> THEN 0
  ELSE IF initial_last_row + total_inserted_existing + 1 < FIRST_ROW THEN FIRST_ROW
  ELSE initial_last_row + total_inserted_existing + 1

(***************************************************************************)
(* The coordinate shifts.                                                  *)
(***************************************************************************)
\* mutant: a segment start shifted by the <= rule of existing rows
RECURSIVE shift_new_segment_start_inclusive(_, _)
shift_new_segment_start_inclusive(segment_start_row_1based, insert_ops_existing) ==
  IF insert_ops_existing = <<>> THEN segment_start_row_1based
  ELSE (IF Head(insert_ops_existing)[1] <= segment_start_row_1based
        THEN Head(insert_ops_existing)[2] ELSE 0)
       + shift_new_segment_start_inclusive(segment_start_row_1based,
                                           Tail(insert_ops_existing))

\* mutant: an existing row shifted by the < rule of segment starts
RECURSIVE shift_existing_row_exclusive(_, _)
shift_existing_row_exclusive(row_num_1based, insert_ops_existing) ==
  IF insert_ops_existing = <<>> THEN row_num_1based
  ELSE (IF Head(insert_ops_existing)[1] < row_num_1based
        THEN Head(insert_ops_existing)[2] ELSE 0)
       + shift_existing_row_exclusive(row_num_1based, Tail(insert_ops_existing))

\* mutant: a segment start shifted by the inserts below it instead of above it
RECURSIVE shift_new_segment_start_below(_, _)
shift_new_segment_start_below(segment_start_row_1based, insert_ops_existing) ==
  IF insert_ops_existing = <<>> THEN segment_start_row_1based
  ELSE (IF Head(insert_ops_existing)[1] > segment_start_row_1based
        THEN Head(insert_ops_existing)[2] ELSE 0)
       + shift_new_segment_start_below(segment_start_row_1based,
                                       Tail(insert_ops_existing))

\* mutant: an existing row shifted by one row for each insert at or above it
RECURSIVE shift_existing_row_by_one(_, _)
shift_existing_row_by_one(row_num_1based, insert_ops_existing) ==
  IF insert_ops_existing = <<>> THEN row_num_1based
  ELSE (IF Head(insert_ops_existing)[1] <= row_num_1based THEN 1 ELSE 0)
       + shift_existing_row_by_one(row_num_1based, Tail(insert_ops_existing))

RECURSIVE shift_new_segment_start_after_inserts(_, _)
shift_new_segment_start_after_inserts(segment_start_row_1based, insert_ops_existing) ==
  IF insert_ops_existing = <<>> THEN segment_start_row_1based
  ELSE (IF Head(insert_ops_existing)[1] < segment_start_row_1based
        THEN Head(insert_ops_existing)[2] ELSE 0)
       + shift_new_segment_start_after_inserts(segment_start_row_1based,
                                               Tail(insert_ops_existing))

RECURSIVE shift_existing_row_after_inserts(_, _)
shift_existing_row_after_inserts(row_num_1based, insert_ops_existing) ==
  IF insert_ops_existing = <<>> THEN row_num_1based
  ELSE (IF Head(insert_ops_existing)[1] <= row_num_1based
        THEN Head(insert_ops_existing)[2] ELSE 0)
       + shift_existing_row_after_inserts(row_num_1based, Tail(insert_ops_existing))

(***************************************************************************)
(* The sheet service.  During a run every row carries src, the row number  *)
(* it had when the run began (0 for a row the run inserted): the service's *)
(* own account of where each row went.                                     *)
(***************************************************************************)
Blank == [row |-> BlankRow, src |-> 0]

Blanks(n) == [i \in 1..n |-> Blank]

\* the grid extended with blank rows so that row r exists
PadTo(grid, r) ==
  IF r - TEMPLATE_ROW > Len(grid)
  THEN grid \o Blanks(r - TEMPLATE_ROW - Len(grid)) ELSE grid

\* insertDimension ROWS [start_row - 1, start_row - 1 + count) followed by
\* copyPaste PASTE_FORMAT from the template row: count blank rows before the
\* row that was at start_row.
insert_dimension(grid, start_row_1based, count) ==
  LET g == PadTo(grid, start_row_1based - 1)
      p == start_row_1based - TEMPLATE_ROW
  IN SubSeq(g, 1, p - 1) \o Blanks(count) \o SubSeq(g, p, Len(g))

RECURSIVE apply_inserts(_, _)
apply_inserts(grid, ops) ==
  IF ops = <<>> THEN grid
  ELSE apply_inserts(IF Head(ops)[2] <= 0 THEN grid
                     ELSE insert_dimension(grid, Head(ops)[1], Head(ops)[2]),
                     Tail(ops))

\* mutant: the existing inserts listed top to bottom
top_down(insert_ops_existing) ==
  LET recs == sort_bottom_up([i \in 1..Len(insert_ops_existing) |->
                                [start |-> insert_ops_existing[i][1],
                                 count |-> insert_ops_existing[i][2]]], <<>>)
      n == Len(recs)
  IN [i \in 1..n |-> <<recs[n + 1 - i].start, recs[n + 1 - i].count>>]

\* the order in which the batch lists the existing inserts: bottom to top
bottom_up(insert_ops_existing) ==
  LET recs == sort_bottom_up([i \in 1..Len(insert_ops_existing) |->
                                [start |-> insert_ops_existing[i][1],
                                 count |-> insert_ops_existing[i][2]]], <<>>)
  IN [i \in 1..Len(recs) |-> <<recs[i].start, recs[i].count>>]

\* the insertDimension requests of the batch, in order: the existing inserts
\* bottom to top, then the append; append_op is <<>> for None
insert_requests(insert_ops_existing, append_op) ==
  bottom_up(insert_ops_existing) \o append_op

batch_insert_rows_with_format(grid, insert_ops_existing, append_op) ==
  apply_inserts(grid, insert_requests(insert_ops_existing, append_op))

\* the cells written for one planned row
cells_of(r) ==
  [title |-> r.title, date |-> r.date, url |-> r.url,
   m |-> IF r.type = "reg" THEN "Secondary" ELSE "Primary",
   e |-> IF r.type = "reg" THEN "Rule/Regulation (non-EU)" ELSE ""]

\* values.batchUpdate of C, H, S, M, E over start_row..start_row + n - 1
write_segment(grid, start_row, rows) ==
  LET n == Len(rows)
      g == PadTo(grid, start_row + n - 1)
  IN IF n <= 0 THEN grid
     ELSE [i \in 1..Len(g) |->
             LET k == i + TEMPLATE_ROW - start_row + 1
             IN IF k \in 1..n
                THEN [g[i] EXCEPT !.row = [title |-> cells_of(rows[k]).title,
                                           date |-> cells_of(rows[k]).date,
                                           url |-> cells_of(rows[k]).url,
                                           m |-> cells_of(rows[k]).m,
                                           e |-> cells_of(rows[k]).e,
                                           bg |-> g[i].row.bg]]
                ELSE g[i]]

RECURSIVE write_segments(_, _)
write_segments(grid, segs) ==
  IF segs = <<>> THEN grid
  ELSE write_segments(write_segment(grid, Head(segs).start, Head(segs).rows), Tail(segs))

\* the segments as batch_write_segments_values addresses them: the existing
\* ones shifted by the < rule, the append segment at its final row
\* mutant: the segments under existing blocks written at their planned rows
final_segments_unshifted(segments_existing, segments_append, insert_ops_existing) ==
  [i \in 1..Len(segments_existing) |->
     [start |-> segments_existing[i].start, rows |-> segments_existing[i].rows]]
  \o segments_append

final_segments(segments_existing, segments_append, insert_ops_existing) ==
  [i \in 1..Len(segments_existing) |->
     [start |-> shift_new_segment_start_after_inserts(segments_existing[i].start,
                                                      insert_ops_existing),
      rows |-> segments_existing[i].rows]]
  \o segments_append

batch_write_segments_values(grid, segments_existing, segments_append, insert_ops_existing) ==
  write_segments(grid, final_segments(segments_existing, segments_append, insert_ops_existing))

\* mutant: only the first listed row coloured
color_rows_first_only(grid, row_numbers_1based, color) ==
  LET top == IF row_numbers_1based = <<>> THEN TEMPLATE_ROW ELSE Head(row_numbers_1based)
      g == PadTo(grid, top)
  IN [i \in 1..Len(g) |->
        IF i + TEMPLATE_ROW = top THEN [g[i] EXCEPT !.row.bg = color] ELSE g[i]]

\* repeatCell backgroundColor on the listed rows
color_rows(grid, row_numbers_1based, color) ==
  LET rows == Range(row_numbers_1based)
      top == IF rows = {} THEN TEMPLATE_ROW ELSE CHOOSE r \in rows : \A q \in rows : q <= r
      g == PadTo(grid, top)
  IN [i \in 1..Len(g) |->
        IF i + TEMPLATE_ROW \in rows THEN [g[i] EXCEPT !.row.bg = color] ELSE g[i]]

(***************************************************************************)
(* run_scrape from "Read sheet context once" to the result summary: the    *)
(* plan it computes in memory, then its four calls on the sheet.           *)
(***************************************************************************)
\* stale_rows: every (row, url) read whose url was not scraped, at its shifted row
RECURSIVE stale_rows_of(_, _, _)
stale_rows_of(all_url_rows, scraped_urls, insert_ops_existing) ==
  IF all_url_rows = <<>> THEN <<>>
  ELSE (IF Head(all_url_rows)[2] # "" /\ Head(all_url_rows)[2] \notin scraped_urls
        THEN <<shift_existing_row_after_inserts(Head(all_url_rows)[1], insert_ops_existing)>>
        ELSE <<>>)
       \o stale_rows_of(Tail(all_url_rows), scraped_urls, insert_ops_existing)

\* mutant: the position taken as the length of the append list after the append
ambiguous_rows_of_one_lower(append_start_row, ambiguous_positions_new) ==
  IF append_start_row # 0 /\ ambiguous_positions_new # <<>>
  THEN [i \in 1..Len(ambiguous_positions_new) |->
          append_start_row + ambiguous_positions_new[i] + 1]
  ELSE <<>>

\* ambiguous_rows = [append_start_row + idx for idx in ambiguous_positions_new]
ambiguous_rows_of(append_start_row, ambiguous_positions_new) ==
  IF append_start_row # 0 /\ ambiguous_positions_new # <<>>
  THEN [i \in 1..Len(ambiguous_positions_new) |-> append_start_row + ambiguous_positions_new[i]]
  ELSE <<>>

run_plan(sh, candidate_laws, regs) ==
  LET kept_laws == kept_laws_of(candidate_laws)
      ctx == read_existing_context(sh)
      st == classify_new_documents(kept_laws, regs, ctx)
      pe == plan_existing_inserts(st, ctx)
      total_inserted_existing == SumCounts(pe.insert_ops_existing)
      append_start_row ==
        append_start_row_of(ctx.initial_last_row, total_inserted_existing,
                            pe.output_rows_to_append)
      ambiguous_rows == ambiguous_rows_of(append_start_row, st.ambiguous_positions_new)
      stale_rows == stale_rows_of(ctx.all_url_rows, st.scraped_urls, pe.insert_ops_existing)
  IN [ ran |-> TRUE,
       candidate_laws |-> candidate_laws,
       regs |-> regs,
       prev |-> sh,
       kept_laws |-> kept_laws,
       ctx |-> ctx,
       scraped_urls |-> st.scraped_urls,
       regs_to_insert_under_existing |-> st.regs_to_insert_under_existing,
       insert_ops_existing |-> pe.insert_ops_existing,
       segments_existing |-> pe.segments_existing,
       output_rows_to_append |-> pe.output_rows_to_append,
       append_start_row |-> append_start_row,
       append_op |-> IF pe.output_rows_to_append = <<>> THEN <<>>
                     ELSE <<(<<append_start_row, Len(pe.output_rows_to_append)>>)>>,
       segments_append |-> IF pe.output_rows_to_append = <<>> THEN <<>>
                           ELSE <<[start |-> append_start_row,
                                   rows |-> pe.output_rows_to_append]>>,
       ambiguous_rows |-> ambiguous_rows,
       stale_rows |-> stale_rows,
       result |-> [ laws_kept |-> Len(kept_laws),
                    rows_written |-> SumCounts(pe.insert_ops_existing)
                                     + Len(pe.output_rows_to_append),
                    ambiguous_colored |-> Len(ambiguous_rows),
                    stale_blackened |-> Len(stale_rows) ] ]

\* the sheet after the row-insertion batch, the cell-value batch and the
\* two colorings of a run with this plan
run_calls(sh, plan) ==
  LET g0 == [i \in 1..Len(sh) |-> [row |-> sh[i], src |-> i + TEMPLATE_ROW]]
      g1 == batch_insert_rows_with_format(g0, plan.insert_ops_existing, plan.append_op)
      g2 == batch_write_segments_values(g1, plan.segments_existing, plan.segments_append,
                                        plan.insert_ops_existing)
      g3 == IF plan.ambiguous_rows # <<>> THEN color_rows(g2, plan.ambiguous_rows, "orange")
            ELSE g2
  IN IF plan.stale_rows # <<>> THEN color_rows(g3, plan.stale_rows, "black") ELSE g3

NoRun ==
  [ ran |-> FALSE, candidate_laws |-> <<>>, regs |-> <<>>, prev |-> <<>>,
    kept_laws |-> <<>>, ctx |-> read_existing_context(<<>>), scraped_urls |-> {},
    regs_to_insert_under_existing |-> <<>>, insert_ops_existing |-> <<>>,
    segments_existing |-> <<>>, output_rows_to_append |-> <<>>, append_start_row |-> 0,
    append_op |-> <<>>, segments_append |-> <<>>, ambiguous_rows |-> <<>>,
    stale_rows |-> <<>>,
    result |-> [laws_kept |-> 0, rows_written |-> 0, ambiguous_colored |-> 0,
                stale_blackened |-> 0],
    origin |-> <<>> ]

NoEvidence == [none |-> TRUE]

NoCall == [nocall |-> TRUE]

(***************************************************************************)
(* The classifier, parse_law_xml.  Text is a sequence of characters, so    *)
(* that lower() and the substring tests are computed, not assumed.         *)
(***************************************************************************)
UPPER == <<"A", "B", "C", "D", "E", "F", "G", "H", "I", "J", "K", "L", "M",
          "N", "O", "P", "Q", "R", "S", "T", "U", "V", "W", "X", "Y", "Z">>
LOWER == <<"a", "b", "c", "d", "e", "f", "g", "h", "i", "j", "k", "l", "m",
          "n", "o", "p", "q", "r", "s", "t", "u", "v", "w", "x", "y", "z">>

lower_char(c) ==
  IF \E i \in 1..Len(UPPER) : UPPER[i] = c
  THEN LOWER[CHOOSE i \in 1..Len(UPPER) : UPPER[i] = c] ELSE c

\* str.lower()
str_lower(t) == [i \in 1..Len(t) |-> lower_char(t[i])]

starts_at(t, i, sub) ==
  /\ i + Len(sub) - 1 <= Len(t)
  /\ \A k \in 1..Len(sub) : t[i + k - 1] = sub[k]

\* sub in t
contains(t, sub) == \E i \in 1..(Len(t) + 1) : starts_at(t, i, sub)

\* the characters \s matches in the texts of the model
SPACES == {" ", "\n"}

\* re.search(word1 \s* word2, t)
RECURSIVE skip_spaces(_, _)
skip_spaces(t, i) == IF i <= Len(t) /\ t[i] \in SPACES THEN skip_spaces(t, i + 1) ELSE i

search_two_words(t, word1, word2) ==
  \E i \in 1..(Len(t) + 1) :
     /\ starts_at(t, i, word1)
     /\ \E j \in (i + Len(word1))..skip_spaces(t, i + Len(word1)) : starts_at(t, j, word2)

W_ikke_i_kraft == <<"i", "k", "k", "e", " ", "i", " ", "k", "r", "a", "f", "t">>
W_ikkje_i_kraft == <<"i", "k", "k", "j", "e", " ", "i", " ", "k", "r", "a", "f", "t">>
W_i_kraft == <<"i", " ", "k", "r", "a", "f", "t">>
W_ikke == <<"i", "k", "k", "e">>
W_ikkje == <<"i", "k", "k", "j", "e">>
W_kongen == <<"k", "o", "n", "g", "e", "n">>
W_bestemmer == <<"b", "e", "s", "t", "e", "m", "m", "e", "r">>
W_fastset == <<"f", "a", "s", "t", "s", "e", "t">>
FALSE_LIKE == {<<"f", "a", "l", "s", "e">>, <<"0">>, <<"n", "o">>, <<"n", "e", "i">>}
TRUE_LIKE == {<<"t", "r", "u", "e">>, <<"1">>, <<"y", "e", "s">>, <<"j", "a">>}

\* the characters of the field values that the model writes as strings
chars_of(v) ==
  CASE v = "2019-01-01" -> <<"2", "0", "1", "9", "-", "0", "1", "-", "0", "1">>
    [] v = "2020-02-01" -> <<"2", "0", "2", "0", "-", "0", "2", "-", "0", "1">>
    [] v = "2021-03-01" -> <<"2", "0", "2", "1", "-", "0", "3", "-", "0", "1">>
    [] v = "snarest" -> <<"s", "n", "a", "r", "e", "s", "t">>
    [] OTHER -> <<>>

DateStrings == {"2019-01-01", "2020-02-01", "2021-03-01"}

\* the string of a date the text holds
string_of(chars) == CHOOSE v \in DateStrings : chars_of(v) = chars

W_I_kraft_fra == <<"I", " ", "k", "r", "a", "f", "t", " ", "f", "r", "a", " ">>
W_title == <<"T">>

\* the texts of the document's elements, in document order: title, inForce,
\* documentNote, lastAmendedInForceFrom, the inForceFrom elements, the
\* paragraphs "I kraft fra <date>", accessRemovedDate
doc_texts(e) ==
  LET one(t) == IF t = <<>> THEN <<>> ELSE <<t>>
  IN <<W_title>> \o one(e.in_force_raw) \o one(e.other_text)
     \o one(chars_of(e.last_amended))
     \o [i \in 1..Len(e.tag_dates) |-> chars_of(e.tag_dates[i])]
     \o [i \in 1..Len(e.text_dates) |-> W_I_kraft_fra \o chars_of(e.text_dates[i])]
     \o one(chars_of(e.access_removed_date))

\* etree.tostring(root, method="text"): the element texts, a line each
RECURSIVE join_lines(_)
join_lines(texts) ==
  IF texts = <<>> THEN <<>>
  ELSE IF Len(texts) = 1 THEN Head(texts)
  ELSE Head(texts) \o <<"\n">> \o join_lines(Tail(texts))

text_full(e) == join_lines(doc_texts(e))

W_i == <<"i">>
W_kraft == <<"k", "r", "a", "f", "t">>
W_fra == <<"f", "r", "a">>

is_iso_date_at(t, i) ==
  /\ i + 9 <= Len(t)
  /\ \A k \in {0, 1, 2, 3, 5, 6, 8, 9} : t[i + k] \in {"0", "1", "2", "3", "4", "5", "6", "7", "8", "9"}
  /\ t[i + 4] = "-"
  /\ t[i + 7] = "-"

\* where the date of a match of I\s*kraft\s*fra\s*(\d{4}-\d{2}-\d{2}) that
\* begins at i starts, 0 for no match at i; lc is the text in lower case
\* (re.IGNORECASE; the digits of a date have no case)
effective_date_at(lc, i) ==
  LET a == skip_spaces(lc, i + 1)
      b == skip_spaces(lc, a + Len(W_kraft))
      c == skip_spaces(lc, b + Len(W_fra))
  IN IF /\ starts_at(lc, i, W_i)
        /\ starts_at(lc, a, W_kraft)
        /\ starts_at(lc, b, W_fra)
        /\ is_iso_date_at(lc, c)
     THEN c ELSE 0

\* find_effective_dates_in_text: the dates of the first pattern, in text
\* order.  The second pattern needs ", <date>" after a date and the third
\* "Fra <day>. <month> <year>"; no text of the model has either, and none
\* has "frå".
RECURSIVE find_effective_dates_from(_, _)
find_effective_dates_from(t, i) ==
  IF i > Len(t) THEN <<>>
  ELSE IF t[i] # "i" THEN find_effective_dates_from(t, i + 1)
  ELSE IF effective_date_at(t, i) # 0
  THEN <<string_of(SubSeq(t, effective_date_at(t, i), effective_date_at(t, i) + 9))>>
       \o find_effective_dates_from(t, effective_date_at(t, i) + 10)
  ELSE find_effective_dates_from(t, i + 1)

find_effective_dates_in_text(text) == find_effective_dates_from(str_lower(text), 1)

\* phrase in text_lc
in_text_lc(e, phrase) == contains(str_lower(text_full(e)), phrase)

\* text_says_effective_date_not_fixed: every pattern of the list contains
\* kongen\s*fastset or kongen\s*bestemmer, which are in the list themselves
text_says_effective_date_not_fixed(e) ==
  LET t == str_lower(text_full(e))
  IN \/ search_two_words(t, W_kongen, W_bestemmer)
     \/ search_two_words(t, W_kongen, W_fastset)

\* list(dict.fromkeys(xs)): duplicates dropped, first-seen order kept
RECURSIVE dedupe(_, _)
dedupe(xs, seen) ==
  IF xs = <<>> THEN <<>>
  ELSE (IF Head(xs) \in seen THEN <<>> ELSE <<Head(xs)>>)
       \o dedupe(Tail(xs), seen \cup {Head(xs)})

\* the positive tag candidates, then the dates found in the text
positive_candidates_of(e) ==
  dedupe(e.tag_dates \o find_effective_dates_in_text(text_full(e)), {})

any_past_or_today_date(dates_list, today) ==
  \E i \in 1..Len(dates_list) :
     parse_iso_date(dates_list[i]) # 0 /\ parse_iso_date(dates_list[i]) <= parse_iso_date(today)

any_future_date(dates_list, today) ==
  \E i \in 1..Len(dates_list) :
     parse_iso_date(dates_list[i]) # 0 /\ parse_iso_date(dates_list[i]) > parse_iso_date(today)

\* mutant: the false-like tokens compared without lower()
explicit_not_in_force_case_sensitive(e) ==
  \/ in_text_lc(e, W_ikke_i_kraft)
  \/ in_text_lc(e, W_ikkje_i_kraft)
  \/ e.in_force_raw \in FALSE_LIKE

explicit_not_in_force(e) ==
  \/ in_text_lc(e, W_ikke_i_kraft)
  \/ in_text_lc(e, W_ikkje_i_kraft)
  \/ str_lower(e.in_force_raw) \in FALSE_LIKE

raw_has_not_in_force(raw_lc) ==
  contains(raw_lc, W_ikke_i_kraft) \/ contains(raw_lc, W_ikkje_i_kraft)

raw_has_in_force(raw_lc) ==
  \/ raw_lc \in TRUE_LIKE
  \/ contains(raw_lc, W_i_kraft) /\ ~contains(raw_lc, W_ikke) /\ ~contains(raw_lc, W_ikkje)

R_explicit == "explicit ikke/ikkje i kraft and no past/today positive entry-into-force date"
R_past == "positive entry-into-force date <= today found (tags or text)"
R_not_fixed == "entry into force not fixed (Kongen fastsetter/bestemmer)"
R_future == "future positive entry-into-force date found (tags or text)"
R_raw_not == "raw inForce indicates not in force / accessRemovedDate"
R_raw_in == "raw inForce indicates in force"
R_none == "no clear inForce + no effective date match"

\* mutant: the true-like test placed before the access-removed test
raw_fallback_true_first(raw_lc, access_removed_date) ==
  IF raw_has_in_force(raw_lc)
  THEN [status |-> "in_force", reason |-> R_raw_in, branch |-> 6]
  ELSE IF raw_has_not_in_force(raw_lc) \/ access_removed_date # ""
  THEN [status |-> "not_in_force", reason |-> R_raw_not, branch |-> 5]
  ELSE [status |-> "ambiguous", reason |-> R_none, branch |-> 7]

\* the raw-flag fallback, the else branch of the chain
raw_fallback(raw_lc, access_removed_date) ==
  IF raw_has_not_in_force(raw_lc) \/ access_removed_date # ""
  THEN [status |-> "not_in_force", reason |-> R_raw_not, branch |-> 5]
  ELSE IF raw_has_in_force(raw_lc)
  THEN [status |-> "in_force", reason |-> R_raw_in, branch |-> 6]
  ELSE [status |-> "ambiguous", reason |-> R_none, branch |-> 7]

\* mutant: the future-date and not-fixed gates placed before the past/today gate
status_chain_future_first(explicit, has_past_or_today, not_fixed, has_future, raw_lc, access_removed_date) ==
  IF explicit /\ ~has_past_or_today
  THEN [status |-> "not_in_force", reason |-> R_explicit, branch |-> 1]
  ELSE IF has_future
  THEN [status |-> "future", reason |-> R_future, branch |-> 4]
  ELSE IF not_fixed /\ ~has_past_or_today
  THEN [status |-> "future", reason |-> R_not_fixed, branch |-> 3]
  ELSE IF has_past_or_today
  THEN [status |-> "in_force", reason |-> R_past, branch |-> 2]
  ELSE raw_fallback(raw_lc, access_removed_date)

\* mutant: the fallback's last branch reports the reason of the branch before it
status_chain_shared_reason(explicit, has_past_or_today, not_fixed, has_future, raw_lc, access_removed_date) ==
  IF explicit /\ ~has_past_or_today
  THEN [status |-> "not_in_force", reason |-> R_explicit, branch |-> 1]
  ELSE IF has_past_or_today
  THEN [status |-> "in_force", reason |-> R_past, branch |-> 2]
  ELSE IF not_fixed
  THEN [status |-> "future", reason |-> R_not_fixed, branch |-> 3]
  ELSE IF has_future
  THEN [status |-> "future", reason |-> R_not_fixed, branch |-> 4]
  ELSE raw_fallback(raw_lc, access_removed_date)

\* the if/elif chain; branch is the position of the branch taken
status_chain(explicit, has_past_or_today, not_fixed, has_future, raw_lc, access_removed_date) ==
  IF explicit /\ ~has_past_or_today
  THEN [status |-> "not_in_force", reason |-> R_explicit, branch |-> 1]
  ELSE IF has_past_or_today
  THEN [status |-> "in_force", reason |-> R_past, branch |-> 2]
  ELSE IF not_fixed
  THEN [status |-> "future", reason |-> R_not_fixed, branch |-> 3]
  ELSE IF has_future
  THEN [status |-> "future", reason |-> R_future, branch |-> 4]
  ELSE raw_fallback(raw_lc, access_removed_date)

parse_law_xml(e) ==
  LET positive_candidates == positive_candidates_of(e)
      d == status_chain(explicit_not_in_force(e),
                        any_past_or_today_date(positive_candidates, e.today),
                        text_says_effective_date_not_fixed(e),
                        any_future_date(positive_candidates, e.today),
                        str_lower(e.in_force_raw),
                        e.access_removed_date)
  IN [ inForceRaw |-> e.in_force_raw,
       positiveCandidates |-> positive_candidates,
       accessRemovedDate |-> e.access_removed_date,
       status |-> d.status,
       reason |-> d.reason,
       branch |-> d.branch ]

\* The copy of the classifier in src/api: the same evidence and the same
\* fallback, the gates in another order; branch is the position of the branch
\* taken in that copy.
api_status_chain(explicit, has_past_or_today, not_fixed, has_future, raw_lc, access_removed_date) ==
  IF explicit /\ ~has_past_or_today
  THEN [status |-> "not_in_force", reason |-> R_explicit, branch |-> 1]
  ELSE IF has_future
  THEN [status |-> "future", reason |-> R_future, branch |-> 2]
  ELSE IF not_fixed /\ ~has_past_or_today
  THEN [status |-> "future", reason |-> R_not_fixed, branch |-> 3]
  ELSE IF has_past_or_today
  THEN [status |-> "in_force", reason |-> R_past, branch |-> 4]
  ELSE raw_fallback(raw_lc, access_removed_date)

api_parse_law_xml(e) ==
  LET positive_candidates == positive_candidates_of(e)
      d == api_status_chain(explicit_not_in_force(e),
                            any_past_or_today_date(positive_candidates, e.today),
                            text_says_effective_date_not_fixed(e),
                            any_future_date(positive_candidates, e.today),
                            str_lower(e.in_force_raw),
                            e.access_removed_date)
  IN [ inForceRaw |-> e.in_force_raw,
       positiveCandidates |-> positive_candidates,
       accessRemovedDate |-> e.access_removed_date,
       status |-> d.status,
       reason |-> d.reason,
       branch |-> d.branch ]

(***************************************************************************)
(* The evidence the classifier is run on.                                  *)
(***************************************************************************)
RawFlags ==
  { <<>>, <<"f", "a", "l", "s", "e">>, <<"F", "a", "l", "s", "e">>, <<"0">>, <<"n", "o">>, <<"N", "E", "I">>, <<"t", "r", "u", "e">>, <<"1">>, <<"Y", "e", "s">>, <<"j", "a">>,
    <<"I", " ", "k", "r", "a", "f", "t">>, <<"i", "k", "k", "e", " ", "i", " ", "k", "r", "a", "f", "t">>, <<"I", "k", "k", "j", "e", " ", "i", " ", "k", "r", "a", "f", "t">>, <<"i", " ", "k", "r", "a", "f", "t", ",", " ", "i", "k", "k", "e", " ", "p", "a", "r", ".", " ", "5">>, <<"d", "e", "l", "v", "i", "s">> }

OtherTexts ==
  { <<>>, <<"L", "o", "v", "e", "n", " ", "e", "r", " ", "I", "K", "K", "E", " ", "I", " ", "K", "R", "A", "F", "T">>, <<"f", "r", "a", " ", "d", "e", "n", " ", "t", "i", "d", " ", "K", "o", "n", "g", "e", "n", " ", " ", "b", "e", "s", "t", "e", "m", "m", "e", "r">>,
    <<"i", "k", "k", "j", "e", " ", "i", " ", "k", "r", "a", "f", "t", ".", " ", "K", "o", "n", "g", "e", "n", " ", "f", "a", "s", "t", "s", "e", "t", "t", "e", "r">>,
    <<"E", "n", "d", "r", "a", " ", "v", "e", "d", " ", "l", "o", "v", ",", " ", "i", " ", "k", "r", "a", "f", "t", " ", "f", "r", "a">> }

TagDates == { <<>>, <<"2019-01-01">>, <<"2021-03-01">>, <<"2021-03-01", "2019-01-01">>,
              <<"snarest">> }
TextDates == { <<>>, <<"2020-02-01">>, <<"2021-03-01">>, <<"2021-03-01", "2021-03-01">> }
AccessDates == { "", "2019-01-01" }
\* the text of the lastAmendedInForceFrom element, "" for none
LastAmendedDates == { "", "2019-01-01", "2021-03-01" }
Todays == { "2020-02-01", "2021-03-01" }

Evidences ==
  [ in_force_raw : RawFlags, other_text : OtherTexts, tag_dates : TagDates,
    text_dates : TextDates, access_removed_date : AccessDates,
    last_amended : LastAmendedDates, today : Todays ]


(***************************************************************************)
(* The ledger specification: an empty tab, then runs of run_scrape, each   *)
(* on the documents that the archives hold (and that parse) at that time.  *)
(***************************************************************************)
\* the plan with the service's account of where each row of the sheet came from
with_origin(plan, grid) ==
  [f \in DOMAIN plan \cup {"origin"} |->
     IF f = "origin" THEN [i \in 1..Len(grid) |-> grid[i].src] ELSE plan[f]]

Init ==
  /\ corpus \in Corpora
  /\ sheet = <<>>
  /\ last = NoRun
  /\ runs = 0
  /\ evidence = NoEvidence
  /\ verdict = NoEvidence
  /\ call = NoCall
  /\ ret = NoCall

Run ==
  /\ runs < MaxRuns
  /\ \E kl \in SUBSET (1..Len(corpus.laws)), kr \in SUBSET (1..Len(corpus.regs)) :
       LET plan == run_plan(sheet, Pick(corpus.laws, kl, 1), Pick(corpus.regs, kr, 1))
           grid == run_calls(sheet, plan)
       IN /\ sheet' = [i \in 1..Len(grid) |-> grid[i].row]
          /\ last' = with_origin(plan, grid)
  /\ runs' = runs + 1
  /\ UNCHANGED <<corpus, evidence, verdict, call, ret>>

Next == Run

Spec == Init /\ [][Next]_vars

(***************************************************************************)
(* The classifier specification: parse_law_xml on one document.            *)
(***************************************************************************)
InitClassify ==
  /\ corpus = [laws |-> <<>>, regs |-> <<>>]
  /\ sheet = <<>>
  /\ last = NoRun
  /\ runs = 0
  /\ evidence \in Evidences
  /\ verdict = NoEvidence
  /\ call = NoCall
  /\ ret = NoCall

Classify ==
  /\ verdict = NoEvidence
  /\ verdict' = parse_law_xml(evidence)
  /\ UNCHANGED <<corpus, sheet, last, runs, evidence, call, ret>>

NextClassify == Classify

SpecClassify == InitClassify /\ [][NextClassify]_vars

(***************************************************************************)
(* Properties of the classifier (checked under SpecClassify).              *)
(***************************************************************************)
Classified == verdict # NoEvidence

\* the candidate strings of the document that are dates
CandidateDates(e) ==
  {d \in Range(positive_candidates_of(e)) : parse_iso_date(d) # 0}

HasPastOrTodayCandidate(e) ==
  \E d \in CandidateDates(e) : parse_iso_date(d) <= parse_iso_date(e.today)

Statuses == {"in_force", "not_in_force", "future", "ambiguous"}

\* C3: gate 2 dominance.  A document with a positive candidate date on or
\* before the current date is classified in_force, whatever its other signals.
C3_Gate2Dominance ==
  (Classified /\ HasPastOrTodayCandidate(evidence)) => verdict.status = "in_force"

\* C3 witness: in_force returned although the document says "ikkje i kraft" and
\* "Kongen fastsetter", has a future date, a false-like flag and an
\* access-removed date.
C3_Witness ==
  /\ Classified
  /\ HasPastOrTodayCandidate(evidence)
  /\ explicit_not_in_force(evidence)
  /\ text_says_effective_date_not_fixed(evidence)
  /\ any_future_date(positive_candidates_of(evidence), evidence.today)
  /\ str_lower(evidence.in_force_raw) \in FALSE_LIKE
  /\ evidence.access_removed_date # ""
  /\ verdict.status = "in_force"

\* the status the gate order of the specification gives
GateOrderStatus(explicitNotInForce, hasPastOrToday, notFixed, hasFuture,
                falseLike, accessRemoved, trueLike, unNegatedInForce) ==
  IF explicitNotInForce /\ ~hasPastOrToday THEN "not_in_force"
  ELSE IF hasPastOrToday THEN "in_force"
  ELSE IF notFixed THEN "future"
  ELSE IF hasFuture THEN "future"
  ELSE IF falseLike \/ accessRemoved THEN "not_in_force"
  ELSE IF trueLike \/ unNegatedInForce THEN "in_force"
  ELSE "ambiguous"

ExpectedStatus(e) ==
  LET raw_lc == str_lower(e.in_force_raw)
  IN GateOrderStatus(
       explicit_not_in_force(e),
       HasPastOrTodayCandidate(e),
       text_says_effective_date_not_fixed(e),
       \E d \in CandidateDates(e) : parse_iso_date(d) > parse_iso_date(e.today),
       raw_lc \in FALSE_LIKE,
       e.access_removed_date # "",
       raw_lc \in TRUE_LIKE,
       contains(raw_lc, W_i_kraft) /\ ~contains(raw_lc, W_ikke) /\ ~contains(raw_lc, W_ikkje))

\* C4: the status returned is the status of the first matching gate of the
\* order 1) explicit and no past date, 2) past date, 3) not fixed, 4) future
\* date, 5) raw flag (false-like or access removed; true-like or un-negated
\* "i kraft"; otherwise ambiguous).
C4_FirstMatchingGate ==
  Classified => verdict.status = ExpectedStatus(evidence)

\* C4 witness: the fallback reached with a true-like flag and an access-removed
\* date, where the order inside gate 5 decides.
C4_Witness ==
  /\ Classified
  /\ verdict.branch = 5
  /\ str_lower(evidence.in_force_raw) \in TRUE_LIKE
  /\ evidence.access_removed_date # ""
  /\ verdict.status = "not_in_force"

\* C5: a false-like raw flag (any letter case) and no positive candidate date
\* give not_in_force.
C5_FalseFlagNoDate ==
  (/\ Classified
   /\ str_lower(evidence.in_force_raw) \in FALSE_LIKE
   /\ CandidateDates(evidence) = {})
  => verdict.status = "not_in_force"

\* C5 witness: the flag is NEI in capitals and the text says the King decides.
C5_Witness ==
  /\ Classified
  /\ evidence.in_force_raw \notin FALSE_LIKE
  /\ str_lower(evidence.in_force_raw) \in FALSE_LIKE
  /\ CandidateDates(evidence) = {}
  /\ text_says_effective_date_not_fixed(evidence)
  /\ verdict.status = "not_in_force"

\* every (reason, branch, status) the decision chain returns: all values of
\* its four tests, every raw flag and access-removed date of the evidence space
Outcomes ==
  { status_chain(x[1], x[2], x[3], x[4], str_lower(raw), acc) :
      x \in BOOLEAN \X BOOLEAN \X BOOLEAN \X BOOLEAN, raw \in RawFlags, acc \in AccessDates }

\* C6: one status of the four and a non-empty reason are returned, and the
\* reason is returned by no other branch and with no other status.
C6_ReasonIdentifiesBranch ==
  Classified =>
    /\ verdict.status \in Statuses
    /\ verdict.reason # ""
    /\ \A o \in Outcomes :
         o.reason = verdict.reason => (o.branch = verdict.branch /\ o.status = verdict.status)

\* C6 witness: the two future branches, told apart by their reasons; here the
\* future-date branch.
C6_Witness ==
  /\ Classified
  /\ verdict.branch = 4
  /\ verdict.status = "future"
  /\ \E o \in Outcomes : o.status = "future" /\ o.reason # verdict.reason

\* C17 (as stated): a date that only the last-amended field holds is no
\* positive candidate, and a document whose only date is a last-amended date
\* is not classified by the past-date or the future-date gate.
C17_LastAmendedIsNoCandidate ==
  (Classified /\ evidence.last_amended # "") =>
    /\ (/\ evidence.last_amended \notin Range(evidence.tag_dates) \cup Range(evidence.text_dates)
        /\ evidence.last_amended # evidence.access_removed_date)
       => evidence.last_amended \notin Range(verdict.positiveCandidates)
    /\ (/\ \A i \in 1..Len(evidence.tag_dates) : parse_iso_date(evidence.tag_dates[i]) = 0
        /\ evidence.text_dates = <<>>
        /\ evidence.access_removed_date = "")
       => verdict.branch \notin {2, 4}

\* C28 (as stated): the copy of the classifier in src/api and the copy in
\* src/lib return the same status for every document.
C28_CopiesAgree ==
  Classified => api_parse_law_xml(evidence).status = verdict.status

(***************************************************************************)
(* Properties of the reconciler (checked under Spec).  last is the plan of *)
(* the latest run, last.prev the sheet it read, sheet the sheet it left,   *)
(* last.origin[j] the row number the j-th row of sheet had in last.prev    *)
(* (0 for a row the run inserted).                                         *)
(***************************************************************************)
\* the rows the cell-value batch of the latest run addressed
WrittenRows ==
  LET segs == final_segments(last.segments_existing, last.segments_append,
                             last.insert_ops_existing)
  IN UNION { segs[i].start .. (segs[i].start + Len(segs[i].rows) - 1) : i \in 1..Len(segs) }

SameValues(a, b) ==
  a.title = b.title /\ a.date = b.date /\ a.url = b.url /\ a.m = b.m /\ a.e = b.e

NoDuplicates(xs) == \A i, j \in 1..Len(xs) : xs[i] = xs[j] => i = j

\* C1 (as stated): a second run on the resulting ledger with the same documents
\* plans no insertion (none under a block, no append block, rows_written = 0)
\* and marks stale only rows the first run marked stale.
C1_SecondRunPlansNothing ==
  last.ran =>
    LET again == run_plan(sheet, last.candidate_laws, last.regs)
    IN /\ again.insert_ops_existing = <<>>
       /\ again.output_rows_to_append = <<>>
       /\ again.result.rows_written = 0
       /\ Range(again.stale_rows) \subseteq Range(last.stale_rows)

\* C2: a run writes cell values only to rows it inserted itself; every row that
\* existed before the run is still there with its title, date, url, marker and
\* kind, and the rows that existed keep their relative order.
C2_ExistingRowsKept ==
  last.ran =>
    /\ \A r \in WrittenRows :
         /\ r - TEMPLATE_ROW \in 1..Len(last.origin)
         /\ last.origin[r - TEMPLATE_ROW] = 0
    /\ \A r \in RowNums(last.prev) :
         \E j \in 1..Len(sheet) :
            /\ last.origin[j] = r
            /\ SameValues(sheet[j], RowOf(last.prev, r))
            /\ \A k \in 1..Len(sheet) : last.origin[k] = r => k = j
    /\ \A i, j \in 1..Len(sheet) :
         (i < j /\ last.origin[i] # 0 /\ last.origin[j] # 0) => last.origin[i] < last.origin[j]

\* C2 witness: a run that inserted rows under an existing block above older
\* rows, which moved down, and also appended rows at the bottom.
C2_Witness ==
  /\ last.ran
  /\ last.insert_ops_existing # <<>>
  /\ last.segments_append # <<>>
  /\ \E j \in 1..Len(sheet) :
        /\ last.origin[j] # 0
        /\ last.origin[j] < j + TEMPLATE_ROW
        /\ SameValues(sheet[j], RowOf(last.prev, last.origin[j]))

\* the rows of the sheet after the run that hold a pre-existing row whose url
\* is non-empty and was not scraped
StaleExpected ==
  { j + TEMPLATE_ROW :
      j \in { k \in 1..Len(last.origin) :
                /\ last.origin[k] # 0
                /\ RowOf(last.prev, last.origin[k]).url # ""
                /\ RowOf(last.prev, last.origin[k]).url \notin last.scraped_urls } }

\* C7: the stale list holds, once each, exactly the rows that after the run's
\* insertions hold a pre-existing row with a non-empty url that was not
\* scraped; no scraped row and no inserted row is in it.
C7_StaleRowsShifted ==
  last.ran =>
    /\ NoDuplicates(last.stale_rows)
    /\ Range(last.stale_rows) = StaleExpected
    /\ \A r \in Range(last.stale_rows) : sheet[r - TEMPLATE_ROW].bg = "black"

\* C7 witness: a stale row that the run's insertions moved down.
C7_Witness ==
  /\ last.ran
  /\ \E i \in 1..Len(last.stale_rows) :
        LET j == last.stale_rows[i] - TEMPLATE_ROW
        IN /\ j \in 1..Len(last.origin)
           /\ last.origin[j] # 0
           /\ last.origin[j] < last.stale_rows[i]
  /\ \E j \in 1..Len(last.origin) :
        last.origin[j] # 0 /\ j + TEMPLATE_ROW \notin Range(last.stale_rows)

\* C8 (as stated): no two Primary rows of the ledger carry the same (date,url).
C8_NoDuplicatePrimary ==
  \A i, j \in 1..Len(sheet) :
     (/\ is_primary(sheet[i]) /\ is_primary(sheet[j])
      /\ sheet[i].date = sheet[j].date /\ sheet[i].url = sheet[j].url) => i = j

\* the (date,url) of the kept laws the regulation of a Secondary row refers to
AttachedTo(row) ==
  { <<last.kept_laws[i].date, last.kept_laws[i].url>> :
      i \in { k \in 1..Len(last.kept_laws) :
                \E q \in 1..Len(last.regs) :
                   /\ last.regs[q].url = row.url
                   /\ last.regs[q].title = row.title
                   /\ strip_NL(last.kept_laws[k].id) \in last.regs[q].refs } }

\* the Primary row that encloses row j of the sheet, 0 for none
EnclosingPrimary(j) ==
  LET above == {i \in 1..j : is_primary(sheet[i])}
  IN IF above = {} THEN 0 ELSE CHOOSE i \in above : \A k \in above : k <= i

\* C9 (as stated): every Secondary row a run writes lies in a Primary block,
\* and the Primary row of that block is a law the regulation is attached to.
C9_SecondaryUnderItsPrimary ==
  last.ran =>
    \A r \in WrittenRows :
       LET j == r - TEMPLATE_ROW
       IN (j \in 1..Len(sheet) /\ ~is_primary(sheet[j])) =>
            /\ EnclosingPrimary(j) # 0
            /\ <<sheet[EnclosingPrimary(j)].date, sheet[EnclosingPrimary(j)].url>>
                 \in AttachedTo(sheet[j])

\* the last row of the block of the Primary row r of sheet sh
BlockEndOf(sh, r) ==
  LET lastRow == get_last_row(sh)
      ends == {q \in r..lastRow : \A x \in (r + 1)..q : ~is_primary(RowOf(sh, x))}
  IN CHOOSE q \in ends : \A x \in ends : x <= q

\* C10 (as stated): the new regulations of a law whose (date,url) is on a
\* Primary row of the ledger are inserted at the row after the last row of that
\* Primary row's block, and none of them is in the append block.
C10_InsertedAfterOwnBlock ==
  last.ran =>
    /\ \A i \in 1..Len(last.output_rows_to_append) :
         last.output_rows_to_append[i].type = "reg" =>
           last.output_rows_to_append[i].owner \notin last.ctx.primary_pairs
    /\ \A i \in 1..Len(last.segments_existing) :
         \A k \in 1..Len(last.segments_existing[i].rows) :
            LET owner == last.segments_existing[i].rows[k].owner
            IN owner \in last.ctx.primary_pairs =>
                 \E r \in RowNums(last.prev) :
                    /\ is_primary(RowOf(last.prev, r))
                    /\ <<RowOf(last.prev, r).date, RowOf(last.prev, r).url>> = owner
                    /\ last.segments_existing[i].start = BlockEndOf(last.prev, r) + 1

\* every row the latest run planned, appended or inserted under a block
PlannedRows ==
  Range(last.output_rows_to_append)
    \cup UNION { Range(last.segments_existing[i].rows) : i \in 1..Len(last.segments_existing) }

\* the Primary row enclosing row r of sheet sh, 0 for none
EnclosingIn(sh, r) ==
  LET above == {q \in FIRST_ROW..r : is_primary(RowOf(sh, q))}
  IN IF above = {} THEN 0 ELSE CHOOSE q \in above : \A x \in above : x <= q

\* the urls of the Secondary rows of sh in the blocks of the Primary rows that
\* carry this (date,url)
SecondaryUrlsUnder(sh, pair) ==
  { RowOf(sh, r).url :
      r \in { q \in RowNums(sh) :
                /\ ~is_primary(RowOf(sh, q))
                /\ EnclosingIn(sh, q) # 0
                /\ <<RowOf(sh, EnclosingIn(sh, q)).date,
                     RowOf(sh, EnclosingIn(sh, q)).url>> = pair } }

\* C11 (as stated): a regulation attached to a kept law gets a row under that
\* law unless its url is already on a Secondary row of that law's own block;
\* what stands in the block of another law does not matter.
C11_DedupScopedPerPrimary ==
  last.ran =>
    \A i \in 1..Len(last.kept_laws) :
       LET law == last.kept_laws[i]
           attached == reg_map_get(last.regs, strip_NL(law.id))
       IN \A q \in 1..Len(attached) :
             (\E row \in PlannedRows :
                 /\ row.type = "reg"
                 /\ row.url = attached[q].url
                 /\ row.title = attached[q].title
                 /\ row.owner = <<law.date, law.url>>)
             <=> ~(/\ attached[q].url # ""
                   /\ attached[q].url \in SecondaryUrlsUnder(last.prev, <<law.date, law.url>>))

\* C14 (as stated): no row of the ledger has an empty url.
C14_NoRowWithoutUrl ==
  \A j \in 1..Len(sheet) : sheet[j].url # ""

\* the rows of the append block that hold a law classified ambiguous
AmbiguousWritten ==
  { last.append_start_row + k - 1 :
      k \in { x \in 1..Len(last.output_rows_to_append) :
                /\ last.output_rows_to_append[x].type = "law"
                /\ last.output_rows_to_append[x].status = "ambiguous" } }

\* C18: the rows marked ambiguous are exactly the rows where the run wrote a
\* law classified ambiguous; each of them holds that law's values and is
\* orange, and no other row the run wrote is orange.
C18_AmbiguousMarked ==
  last.ran =>
    /\ Range(last.ambiguous_rows) = AmbiguousWritten
    /\ \A k \in 1..Len(last.output_rows_to_append) :
         LET row == last.output_rows_to_append[k]
             j == last.append_start_row + k - 1 - TEMPLATE_ROW
         IN (row.type = "law" /\ row.status = "ambiguous") =>
              /\ j \in 1..Len(sheet)
              /\ SameValues(sheet[j], cells_of(row))
              /\ sheet[j].bg = "orange"
    /\ \A j \in 1..Len(sheet) :
         (last.origin[j] = 0 /\ sheet[j].bg = "orange") =>
            (j + TEMPLATE_ROW \in AmbiguousWritten /\ is_primary(sheet[j]))

\* C18 witness: an ambiguous law written in the middle of the append block,
\* after rows of another law and before rows queued later.
C18_Witness ==
  /\ last.ran
  /\ \E r \in Range(last.ambiguous_rows) :
        /\ r > last.append_start_row
        /\ r < last.append_start_row + Len(last.output_rows_to_append) - 1
        /\ sheet[r - TEMPLATE_ROW].bg = "orange"
        /\ ~is_primary(sheet[r - TEMPLATE_ROW + 1])

\* the rows of the sheet that the latest run created
InsertedRows == {j + TEMPLATE_ROW : j \in {k \in 1..Len(last.origin) : last.origin[k] = 0}}

RECURSIVE SumOfRows(_)
SumOfRows(segs) == IF segs = <<>> THEN 0 ELSE Len(Head(segs).rows) + SumOfRows(Tail(segs))

\* C23: laws_kept counts the parsed laws classified in_force or ambiguous;
\* rows_written is the number of rows of the planned segments, of rows the
\* insertion batch created and of rows the value batch addressed, and each
\* of those rows holds values; ambiguous_colored is the number of rows
\* marked ambiguous, all orange; stale_blackened is the number of rows marked
\* stale, all black.
C23_SummaryMatchesRun ==
  last.ran =>
    /\ last.result.laws_kept
         = Cardinality({i \in 1..Len(last.candidate_laws) :
                          last.candidate_laws[i].status \in {"in_force", "ambiguous"}})
    /\ last.result.rows_written
         = SumOfRows(last.segments_existing) + SumOfRows(last.segments_append)
    /\ last.result.rows_written = Cardinality(InsertedRows)
    /\ last.result.rows_written = Cardinality(WrittenRows)
    /\ last.result.rows_written = Len(sheet) - Len(last.prev)
    /\ \A r \in WrittenRows : HasValue(sheet[r - TEMPLATE_ROW])
    /\ last.result.ambiguous_colored = Cardinality(Range(last.ambiguous_rows))
    /\ \A r \in Range(last.ambiguous_rows) : sheet[r - TEMPLATE_ROW].bg = "orange"
    /\ last.result.stale_blackened = Cardinality(Range(last.stale_rows))
    /\ \A r \in Range(last.stale_rows) : sheet[r - TEMPLATE_ROW].bg = "black"
    /\ Range(last.ambiguous_rows) \cap Range(last.stale_rows) = {}

\* C23 witness: a run that inserted under an existing block, appended,
\* marked an ambiguous row orange and a stale row black.
C23_Witness ==
  /\ last.ran
  /\ last.insert_ops_existing # <<>>
  /\ last.segments_append # <<>>
  /\ last.result.rows_written > 2
  /\ last.result.rows_written = Cardinality(InsertedRows)
  /\ last.result.ambiguous_colored > 0
  /\ last.result.stale_blackened > 0

\* the segments of the cell-value batch of the latest run, at their final rows
WrittenSegments ==
  final_segments(last.segments_existing, last.segments_append, last.insert_ops_existing)

SegmentRows(seg) == seg.start .. (seg.start + Len(seg.rows) - 1)

\* C24: the rows the value batch writes are exactly the rows the insertion
\* batch created; the write ranges of the segments, the append block
\* included, are pairwise disjoint; every created row holds the values of
\* the planned row of its segment, so none stays blank.
C24_InsertedAreWritten ==
  last.ran =>
    /\ WrittenRows = InsertedRows
    /\ \A i, j \in 1..Len(WrittenSegments) :
          i # j => SegmentRows(WrittenSegments[i]) \cap SegmentRows(WrittenSegments[j]) = {}
    /\ \A i \in 1..Len(WrittenSegments) : \A k \in 1..Len(WrittenSegments[i].rows) :
          LET j == WrittenSegments[i].start + k - 1 - TEMPLATE_ROW
          IN /\ j \in 1..Len(sheet)
             /\ SameValues(sheet[j], cells_of(WrittenSegments[i].rows[k]))
             /\ HasValue(sheet[j])
    /\ \A r \in InsertedRows : HasValue(sheet[r - TEMPLATE_ROW])

\* C24 witness: two inserts under existing blocks, the lower segment written
\* below its planned row.
C24_Witness ==
  /\ last.ran
  /\ Len(last.insert_ops_existing) >= 2
  /\ \E i \in 1..Len(last.segments_existing) :
        WrittenSegments[i].start > last.segments_existing[i].start
  /\ WrittenRows = InsertedRows

\* the requests of the row-insertion batch of the latest run
Requests == insert_requests(last.insert_ops_existing, last.append_op)

\* C25: the batch lists the inserts under existing blocks in strictly
\* decreasing order of start row, each with its planned start row and count,
\* and the append after them; in the sheet the run leaves, the rows of every
\* insert under a block directly follow the row that was the last row of
\* that block, and the append block follows every other row.
C25_BottomUpInserts ==
  last.ran =>
    LET n == Len(last.insert_ops_existing)
    IN /\ Len(Requests) = n + Len(last.append_op)
       /\ \A i, j \in 1..n : i < j => Requests[i][1] > Requests[j][1]
       /\ {Requests[i] : i \in 1..n} = Range(last.insert_ops_existing)
       /\ \A i \in 1..n :
             Requests[i][1] - 1 \in {b.end_row : b \in Range(last.ctx.primary_blocks)}
       /\ last.append_op # <<>> => Requests[n + 1] = last.append_op[1]
       /\ \A i \in 1..n :
             LET first == WrittenSegments[i].start - TEMPLATE_ROW
                 count == Len(WrittenSegments[i].rows)
             IN /\ first - 1 \in 1..Len(sheet)
                /\ last.origin[first - 1] = last.segments_existing[i].start - 1
                /\ \A k \in first..(first + count - 1) : last.origin[k] = 0
                /\ first + count <= Len(sheet) =>
                      last.origin[first + count]
                        = IF last.segments_existing[i].start <= last.ctx.initial_last_row
                          THEN last.segments_existing[i].start ELSE 0
       /\ last.append_op # <<>> =>
             /\ last.append_op[1][1] + last.append_op[1][2] - 1 - TEMPLATE_ROW = Len(sheet)
             /\ \A k \in (last.append_op[1][1] - TEMPLATE_ROW)..Len(sheet) : last.origin[k] = 0

\* C25 witness: two inserts under existing blocks in one batch; the upper
\* one moved the rows of the lower one down.
C25_Witness ==
  /\ last.ran
  /\ Len(Requests) >= 2
  /\ Requests[1][1] > Requests[2][1]
  /\ WrittenSegments[1].start = Requests[1][1] + Requests[2][2]
  /\ last.origin[WrittenSegments[1].start - 1 - TEMPLATE_ROW] = Requests[1][1] - 1

\* the position in the append list of the law row that stands above position
\* k, 0 for none
LawRowAbove(k) ==
  LET above == {i \in 1..k : last.output_rows_to_append[i].type = "law"}
  IN IF above = {} THEN 0 ELSE CHOOSE i \in above : \A x \in above : x <= i

\* the kept laws that are new in the latest run: not on a Primary row that
\* the run read and not queued earlier in the run
NewLaws ==
  { i \in 1..Len(last.kept_laws) :
      LET law == last.kept_laws[i]
      IN ~(/\ law.date # "" /\ law.url # ""
           /\ \/ <<law.date, law.url>> \in last.ctx.primary_pairs
              \/ \E q \in 1..(i - 1) : /\ last.kept_laws[q].date = law.date
                                        /\ last.kept_laws[q].url = law.url) }

\* C26 (as stated): the append block holds the new laws of the run in the
\* order they were kept, each directly followed by the new regulations queued
\* under it and by nothing else; it is written as one run of rows that
\* starts at the last used row + the rows inserted under existing blocks + 1,
\* never above row 3, directly after every other row of the table.
C26_AppendBlock ==
  last.ran =>
    LET out == last.output_rows_to_append
        laws == SelectSeq(out, LAMBDA row : row.type = "law")
        new == SelectSeq(last.kept_laws,
                         LAMBDA law : \E i \in NewLaws : last.kept_laws[i] = law)
    IN /\ Len(laws) = Cardinality(NewLaws)
       /\ \A i \in 1..Len(laws) :
             i <= Len(new) /\ laws[i].title = new[i].title /\ laws[i].date = new[i].date
                           /\ laws[i].url = new[i].url
       /\ \A k \in 1..Len(out) :
             out[k].type = "reg" =>
               /\ LawRowAbove(k) # 0
               /\ out[k].owner = <<out[LawRowAbove(k)].date, out[LawRowAbove(k)].url>>
       /\ out # <<>> =>
             /\ last.append_start_row
                  = last.ctx.initial_last_row + SumCounts(last.insert_ops_existing) + 1
             /\ last.append_start_row >= FIRST_ROW
             /\ last.append_start_row - TEMPLATE_ROW + Len(out) - 1 = Len(sheet)
             /\ \A k \in 1..Len(out) :
                   LET j == last.append_start_row - TEMPLATE_ROW + k - 1
                   IN SameValues(sheet[j], cells_of(out[k])) /\ last.origin[j] = 0
             /\ \A j \in 1..(last.append_start_row - TEMPLATE_ROW - 1) :
                   last.origin[j] # 0 \/ j + TEMPLATE_ROW \in WrittenRows

\* the rows the latest run walked and the Primary rows among them
WalkedRows == FIRST_ROW..last.ctx.initial_last_row
PrimaryRowsRead == {r \in WalkedRows : lower(RowOf(last.prev, r).m) = "primary"}

\* the Primary row enclosing row r in the sheet the latest run read, 0 for none
PrimaryRowAbove(r) ==
  LET above == {q \in PrimaryRowsRead : q <= r}
  IN IF above = {} THEN 0 ELSE CHOOSE q \in above : \A x \in above : x <= q

\* C27: the read phase walks rows 3..last used row of the sheet as it was
\* before the run and returns (i) the (date,url) of the Primary rows that
\* have both, (ii) per Primary url the non-empty urls of the non-Primary rows
\* between a Primary row of that url and the next Primary row, (iii) the
\* (row,url) of every row with a url, in row order, (iv) one block per
\* Primary row, ending before the next Primary row or on the last used row:
\* the blocks are disjoint, in row order and cover every row from the first
\* Primary row to the last used row.
C27_ReadPhase ==
  last.ran =>
    LET ctx == last.ctx
        sh == last.prev
        blocks == ctx.primary_blocks
    IN /\ ctx.initial_last_row >= TEMPLATE_ROW
       /\ \A r \in RowNums(sh) : HasValue(RowOf(sh, r)) => r <= ctx.initial_last_row
       /\ ctx.initial_last_row > TEMPLATE_ROW => HasValue(RowOf(sh, ctx.initial_last_row))
       /\ ctx.primary_pairs
            = { <<RowOf(sh, r).date, RowOf(sh, r).url>> :
                  r \in {q \in PrimaryRowsRead : RowOf(sh, q).date # "" /\ RowOf(sh, q).url # ""} }
       /\ DOMAIN ctx.regs_under_primary = {RowOf(sh, r).url : r \in PrimaryRowsRead}
       /\ \A u \in DOMAIN ctx.regs_under_primary :
             ctx.regs_under_primary[u]
               = { RowOf(sh, r).url :
                     r \in {q \in WalkedRows \ PrimaryRowsRead :
                              /\ PrimaryRowAbove(q) # 0
                              /\ u # ""
                              /\ RowOf(sh, PrimaryRowAbove(q)).url = u
                              /\ RowOf(sh, q).url # ""} }
       /\ Range(ctx.all_url_rows)
            = {<<r, RowOf(sh, r).url>> : r \in {q \in WalkedRows : RowOf(sh, q).url # ""}}
       /\ \A i, j \in 1..Len(ctx.all_url_rows) :
             i < j => ctx.all_url_rows[i][1] < ctx.all_url_rows[j][1]
       /\ {blocks[i].row : i \in 1..Len(blocks)} = PrimaryRowsRead
       /\ \A i \in 1..Len(blocks) :
             /\ blocks[i].url = RowOf(sh, blocks[i].row).url
             /\ blocks[i].row <= blocks[i].end_row
             /\ i < Len(blocks) => blocks[i].end_row + 1 = blocks[i + 1].row
             /\ i = Len(blocks) => blocks[i].end_row = ctx.initial_last_row
             /\ \A r \in (blocks[i].row + 1)..blocks[i].end_row : r \notin PrimaryRowsRead

\* a run read a sheet with several blocks, one of them not the last and
\* longer than its Primary row, Secondary urls under a Primary url, a
\* Primary row without both values and a row without url
C27_Witness ==
  /\ last.ran
  /\ Len(last.ctx.primary_blocks) >= 2
  /\ \E i \in 1..Len(last.ctx.primary_blocks) :
        /\ i < Len(last.ctx.primary_blocks)
        /\ last.ctx.primary_blocks[i].end_row > last.ctx.primary_blocks[i].row
  /\ \E u \in DOMAIN last.ctx.regs_under_primary : last.ctx.regs_under_primary[u] # {}
  /\ Cardinality(last.ctx.primary_pairs) < Cardinality(PrimaryRowsRead)
  /\ Len(last.ctx.all_url_rows) < last.ctx.initial_last_row - TEMPLATE_ROW

\* the parsed laws of the latest run that are binding or undetermined, and
\* the others
BindingLaws ==
  {i \in 1..Len(last.candidate_laws) :
     last.candidate_laws[i].status \in {"in_force", "ambiguous"}}
DroppedLaws == (1..Len(last.candidate_laws)) \ BindingLaws

\* the parsed regulations that refer to a binding or undetermined law
BoundRegs ==
  {q \in 1..Len(last.regs) :
     \E i \in BindingLaws : strip_NL(last.candidate_laws[i].id) \in last.regs[q].refs}

\* C29: a run writes a Primary row only for a law classified in_force or
\* ambiguous and a Secondary row only for a regulation that refers to such a
\* law; a law classified not_in_force or future gets no row, and the
\* scraped-url set holds the urls of the in_force or ambiguous laws and of
\* the regulations that refer to them, and no other url.
C29_OnlyBindingDocuments ==
  last.ran =>
    /\ \A k \in 1..Len(last.kept_laws) :
          \E i \in BindingLaws : last.candidate_laws[i] = last.kept_laws[k]
    /\ \A r \in WrittenRows :
          LET row == sheet[r - TEMPLATE_ROW]
          IN IF is_primary(row)
             THEN \E i \in BindingLaws :
                     /\ last.candidate_laws[i].title = row.title
                     /\ last.candidate_laws[i].date = row.date
                     /\ last.candidate_laws[i].url = row.url
             ELSE \E q \in BoundRegs :
                     /\ last.regs[q].title = row.title
                     /\ last.regs[q].url = row.url
    /\ \A i \in DroppedLaws, r \in WrittenRows :
          sheet[r - TEMPLATE_ROW].title # last.candidate_laws[i].title
    /\ \A q \in (1..Len(last.regs)) \ BoundRegs, r \in WrittenRows :
          sheet[r - TEMPLATE_ROW].title # last.regs[q].title
    /\ last.scraped_urls
         = ({last.candidate_laws[i].url : i \in BindingLaws}
              \cup {last.regs[q].url : q \in BoundRegs}) \ {""}

\* a run that parsed a law that is not binding and a regulation that refers
\* to no other parsed law, wrote rows for other documents, and found the
\* row of that regulation on the sheet and marked it stale
C29_Witness ==
  /\ last.ran
  /\ DroppedLaws # {}
  /\ WrittenRows # {}
  /\ \E q \in (1..Len(last.regs)) \ BoundRegs :
        /\ \E i \in DroppedLaws : strip_NL(last.candidate_laws[i].id) \in last.regs[q].refs
        /\ last.regs[q].url \notin last.scraped_urls
        /\ \E k \in 1..Len(last.stale_rows) :
              sheet[last.stale_rows[k] - TEMPLATE_ROW].url = last.regs[q].url

\* the blocks that the i-th planned insert of the latest run may refer to:
\* those of its law url that end on the row before its start row
BlocksOfInsert(i) ==
  {b \in 1..Len(last.ctx.primary_blocks) :
     /\ last.ctx.primary_blocks[b].url = last.segments_existing[i].law_url
     /\ last.ctx.primary_blocks[b].end_row + 1 = last.insert_ops_existing[i][1]}

\* C30: the inserts planned under existing primaries have pairwise distinct
\* start rows; each starts on the row after the end row of a block of its
\* law, no two refer to one block, every start row lies between 4 and the
\* last used row + 1, and every count is at least 1.
C30_PlannedInsertsDistinct ==
  last.ran =>
    /\ Len(last.segments_existing) = Len(last.insert_ops_existing)
    /\ \A i \in 1..Len(last.insert_ops_existing) :
          /\ last.segments_existing[i].start = last.insert_ops_existing[i][1]
          /\ Len(last.segments_existing[i].rows) = last.insert_ops_existing[i][2]
          /\ BlocksOfInsert(i) # {}
          /\ last.insert_ops_existing[i][1] >= FIRST_ROW + 1
          /\ last.insert_ops_existing[i][1] <= last.ctx.initial_last_row + 1
          /\ last.insert_ops_existing[i][2] >= 1
    /\ \A i, j \in 1..Len(last.insert_ops_existing) :
          i # j => /\ last.insert_ops_existing[i][1] # last.insert_ops_existing[j][1]
                   /\ BlocksOfInsert(i) \cap BlocksOfInsert(j) = {}

\* a run that planned two inserts, one after the last used row and one above
\* it, under blocks of which one held Secondary rows already
C30_Witness ==
  /\ last.ran
  /\ Len(last.insert_ops_existing) >= 2
  /\ \E i, j \in 1..Len(last.insert_ops_existing) :
        /\ last.insert_ops_existing[i][1] = last.ctx.initial_last_row + 1
        /\ last.insert_ops_existing[j][1] < last.ctx.initial_last_row + 1
  /\ \E i \in 1..Len(last.insert_ops_existing), b \in 1..Len(last.ctx.primary_blocks) :
        /\ b \in BlocksOfInsert(i)
        /\ last.ctx.primary_blocks[b].end_row > last.ctx.primary_blocks[b].row

(***************************************************************************)
(* The coordinate-shift specification: both shifts applied to a row number *)
(* and a list of inserts (start row, count), and the same inserts applied  *)
(* to a table of rows FIRST_ROW..ShiftTableLast, bottom to top as the      *)
(* insert batch lists them.  A count is the length of a non-empty list of  *)
(* rows, so it is positive.                                                *)
(***************************************************************************)
ShiftStarts == {4, 10, 20}
ShiftCounts == {1, 2, 3}
ShiftRows == {3, 10, 19, 20, 21}

ShiftOps ==
  UNION { [1..n -> ShiftStarts \X ShiftCounts] : n \in 0..MaxOps }

ShiftCalls == [row : ShiftRows, ops : ShiftOps]

\* where each row of the table came from after the inserts
table_after_inserts(insert_ops_existing) ==
  LET g0 == [i \in 1..(ShiftTableLast - TEMPLATE_ROW) |->
               [row |-> BlankRow, src |-> i + TEMPLATE_ROW]]
      g1 == batch_insert_rows_with_format(g0, insert_ops_existing, <<>>)
  IN [i \in 1..Len(g1) |-> g1[i].src]

InitShift ==
  /\ corpus = [laws |-> <<>>, regs |-> <<>>]
  /\ sheet = <<>>
  /\ last = NoRun
  /\ runs = 0
  /\ evidence = NoEvidence
  /\ verdict = NoEvidence
  /\ call \in ShiftCalls
  /\ ret = NoCall

Shift ==
  /\ ret = NoCall
  /\ ret' = [new_segment |-> shift_new_segment_start_after_inserts(call.row, call.ops),
             existing_row |-> shift_existing_row_after_inserts(call.row, call.ops),
             table |-> table_after_inserts(call.ops)]
  /\ UNCHANGED <<corpus, sheet, last, runs, evidence, verdict, call>>

NextShift == Shift

SpecShift == InitShift /\ [][NextShift]_vars

(***************************************************************************)
(* Properties of the coordinate shifts (checked under SpecShift).          *)
(***************************************************************************)
Shifted == ret # NoCall

RECURSIVE SumOfCounts(_, _)
SumOfCounts(ops, idx) ==
  IF idx = {} THEN 0
  ELSE LET i == CHOOSE x \in idx : TRUE
       IN ops[i][2] + SumOfCounts(ops, idx \ {i})

ExampleOps == << <<10, 2>>, <<20, 3>> >>

\* C12: a new segment planned at row R is written at R plus the counts of the
\* inserts that start strictly above R; inserts at R or below add nothing.
\* With inserts (10,2) and (20,3) a segment planned at 20 is written at 22.
C12_NewSegmentShift ==
  Shifted =>
    /\ ret.new_segment =
         call.row + SumOfCounts(call.ops, {i \in 1..Len(call.ops) : call.ops[i][1] < call.row})
    /\ (call.ops = ExampleOps /\ call.row = 20) => ret.new_segment = 22

\* C12 witness: the example, where the segment's own insert at 20 adds nothing.
C12_Witness ==
  /\ Shifted
  /\ call.ops = ExampleOps
  /\ call.row = 20
  /\ ret.new_segment = 22

\* C13: a row that was at R is found at R plus the counts of the inserts that
\* start at or above R, and that is where the table has it after the inserts.
\* With inserts (10,2) and (20,3) the row that was at 20 is at 25.
C13_ExistingRowShift ==
  Shifted =>
    /\ ret.existing_row =
         call.row + SumOfCounts(call.ops, {i \in 1..Len(call.ops) : call.ops[i][1] <= call.row})
    /\ ret.existing_row - TEMPLATE_ROW \in 1..Len(ret.table)
    /\ ret.table[ret.existing_row - TEMPLATE_ROW] = call.row
    /\ (call.ops = ExampleOps /\ call.row = 20) => ret.existing_row = 25

\* C13 witness: the example, where the insert at the row's own number moves it.
C13_Witness ==
  /\ Shifted
  /\ call.ops = ExampleOps
  /\ call.row = 20
  /\ ret.existing_row = 25
  /\ ret.table[25 - TEMPLATE_ROW] = 20

(***************************************************************************)
(* Identifiers and urls derived from an archive member's name.  Names,     *)
(* identifiers and urls are sequences of characters.                       *)
(***************************************************************************)
\* the strings of the derivations, as characters
XML_EXT == <<".", "x", "m", "l">>
PREFIX_NL == <<"n", "l">>
PREFIX_SF == <<"s", "f">>
KIND_LOV == <<"l", "o", "v", "/">>
KIND_FORSKRIFT == <<"f", "o", "r", "s", "k", "r", "i", "f", "t", "/">>
DIR_NL == <<"N", "L", "/">>
DIR_SF == <<"S", "F", "/">>
DIR_SF_LC == <<"s", "f", "/">>
BASE_URL == <<"h", "t", "t", "p", "s", ":", "/", "/", "l", "o", "v", "d", "a", "t", "a", ".", "n", "o", "/", "d", "o", "k", "u", "m", "e", "n", "t", "/">>
CH_20240115 == <<"2", "0", "2", "4", "0", "1", "1", "5">>
CH_2024_01_15 == <<"2", "0", "2", "4", "-", "0", "1", "-", "1", "5">>
CH_20210301 == <<"2", "0", "2", "1", "0", "3", "0", "1">>
CH_2021_03_01 == <<"2", "0", "2", "1", "-", "0", "3", "-", "0", "1">>
DOC_NL_LOV == <<"N", "L", "/", "l", "o", "v", "/", "1", "9", "9", "9", "-", "1", "2", "-", "3", "1", "-", "5">>
DOC_LOV == <<" ", "l", "o", "v", "/", "1", "9", "9", "9", "-", "1", "2", "-", "3", "1", "-", "5">>
DOC_SF == <<"S", "F", "/", "f", "o", "r", "s", "k", "r", "i", "f", "t", "/", "1", "9", "9", "9", "-", "1", "2", "-", "3", "1", "-", "5">>
DOC_FORSKRIFT == <<"f", "o", "r", "s", "k", "r", "i", "f", "t", "/", "1", "9", "9", "9", "-", "1", "2", "-", "3", "1", "-", "5">>

DIGITS == {"0", "1", "2", "3", "4", "5", "6", "7", "8", "9"}

\* filename.lower().split("/")[-1]
last_path_part(fn) ==
  LET slashes == {i \in 1..Len(fn) : fn[i] = "/"}
  IN IF slashes = {} THEN fn
     ELSE SubSeq(fn, (CHOOSE i \in slashes : \A j \in slashes : j <= i) + 1, Len(fn))

\* the number of digits that end at index j of t
digits_before(t, j) ==
  IF j < 1 THEN 0
  ELSE CHOOSE k \in 0..j :
         /\ \A i \in (j - k + 1)..j : t[i] \in DIGITS
         /\ (k = j \/ t[j - k] \notin DIGITS)

\* mutant: the suffix kept as written
keep_leading_zeros(digits) == digits

\* str(int(suffix_str)) for a suffix that is not zero; <<>> for zero
RECURSIVE strip_leading_zeros(_)
strip_leading_zeros(digits) ==
  IF digits # <<>> /\ Head(digits) = "0" THEN strip_leading_zeros(Tail(digits))
  ELSE digits

NoDerivation == [date_iso |-> <<>>, suffix_str |-> <<>>]

\* re.search(prefix-(\d{8})-(\d+)\.xml$, fn): fn ends with .xml, before it the
\* suffix digits, "-", eight digits, "-" and the prefix
derive_date_and_suffix_from_filename(filename, prefix) ==
  IF filename = <<>> THEN NoDerivation
  ELSE LET fn == last_path_part(str_lower(filename))
           n == Len(fn)
           k == digits_before(fn, n - 4)
           d == n - 4 - k - 8              \* index of the first date digit
       IN IF /\ n >= 4
             /\ SubSeq(fn, n - 3, n) = XML_EXT
             /\ k >= 1
             /\ d - 1 - Len(prefix) >= 1
             /\ fn[n - 4 - k] = "-"
             /\ \A i \in d..(d + 7) : fn[i] \in DIGITS
             /\ fn[d - 1] = "-"
             /\ SubSeq(fn, d - 1 - Len(prefix), d - 2) = prefix
          THEN [date_iso |-> SubSeq(fn, d, d + 3) \o <<"-">> \o SubSeq(fn, d + 4, d + 5)
                               \o <<"-">> \o SubSeq(fn, d + 6, d + 7),
                suffix_str |-> SubSeq(fn, n - 3 - k, n - 4)]
          ELSE NoDerivation

id_from_filename(filename, prefix, kind) ==
  LET m == derive_date_and_suffix_from_filename(filename, prefix)
  IN IF m.date_iso = <<>> THEN <<>>
     ELSE IF m.suffix_str # <<>> /\ strip_leading_zeros(m.suffix_str) # <<>>
     THEN kind \o m.date_iso \o <<"-">> \o strip_leading_zeros(m.suffix_str)
     ELSE kind \o m.date_iso

derive_law_id_from_filename(filename) == id_from_filename(filename, PREFIX_NL, KIND_LOV)

derive_reg_id_from_filename(filename) == id_from_filename(filename, PREFIX_SF, KIND_FORSKRIFT)

has_prefix(t, pre) == Len(t) >= Len(pre) /\ SubSeq(t, 1, Len(pre)) = pre

\* str.strip() of spaces
RECURSIVE strip(_)
strip(t) ==
  IF t # <<>> /\ Head(t) = " " THEN strip(Tail(t))
  ELSE IF t # <<>> /\ t[Len(t)] = " " THEN strip(SubSeq(t, 1, Len(t) - 1))
  ELSE t

is_not_space(c) == c # " "

build_public_law_url(doc_id, filename) ==
  LET ref == derive_law_id_from_filename(filename)
      id == SelectSeq(strip(doc_id), is_not_space)
  IN IF filename # <<>> /\ ref # <<>> THEN BASE_URL \o DIR_NL \o ref
     ELSE IF doc_id = <<>> THEN <<>>
     ELSE IF has_prefix(id, DIR_NL \o KIND_LOV) THEN BASE_URL \o id
     ELSE BASE_URL \o DIR_NL \o id

build_public_reg_url(doc_id, filename) ==
  LET rid == derive_reg_id_from_filename(filename)
      id == strip(doc_id)
  IN IF filename # <<>> /\ rid # <<>> THEN BASE_URL \o DIR_SF \o rid
     ELSE IF doc_id = <<>> THEN <<>>
     ELSE IF has_prefix(id, DIR_SF) THEN BASE_URL \o id
     ELSE IF has_prefix(id, DIR_SF_LC) THEN BASE_URL \o DIR_SF \o id
     ELSE IF has_prefix(id, KIND_FORSKRIFT) THEN BASE_URL \o DIR_SF \o id
     ELSE BASE_URL \o id

(***************************************************************************)
(* The derivation specification: the derivations applied to a name built   *)
(* from a directory, a prefix, eight date digits, a suffix and an          *)
(* extension, and to a declared document identifier.                       *)
(***************************************************************************)
NameDirs == {<<>>, <<"n", "l", "/">>}
NamePrefixes == {<<"n", "l">>, <<"N", "L">>, <<"s", "f">>, <<"S", "f">>}
NameDates ==
  { [digits |-> CH_20240115, iso |-> CH_2024_01_15],
    [digits |-> CH_20210301, iso |-> CH_2021_03_01] }
\* text: what the name holds after the date; n: the number in decimal, <<>> for none or zero
NameSuffixes ==
  { [text |-> <<>>, n |-> <<>>],
    [text |-> <<"-", "0">>, n |-> <<>>],
    [text |-> <<"-", "0", "0", "0">>, n |-> <<>>],
    [text |-> <<"-", "3">>, n |-> <<"3">>],
    [text |-> <<"-", "0", "3">>, n |-> <<"3">>],
    [text |-> <<"-", "1", "0">>, n |-> <<"1", "0">>] }
NameExts == {<<".", "x", "m", "l">>, <<".", "X", "M", "L">>, <<".", "t", "x", "t">>}
DeclaredIds == {<<>>, DOC_NL_LOV, DOC_LOV, DOC_SF, DOC_FORSKRIFT}

DeriveCalls ==
  [dir : NameDirs, prefix : NamePrefixes, date : NameDates, suffix : NameSuffixes,
   ext : NameExts, doc_id : DeclaredIds]

filename_of(c) == c.dir \o c.prefix \o <<"-">> \o c.date.digits \o c.suffix.text \o c.ext

InitDerive ==
  /\ corpus = [laws |-> <<>>, regs |-> <<>>]
  /\ sheet = <<>>
  /\ last = NoRun
  /\ runs = 0
  /\ evidence = NoEvidence
  /\ verdict = NoEvidence
  /\ call \in DeriveCalls
  /\ ret = NoCall

Derive ==
  /\ ret = NoCall
  /\ ret' = [law_id |-> derive_law_id_from_filename(filename_of(call)),
             reg_id |-> derive_reg_id_from_filename(filename_of(call)),
             law_url |-> build_public_law_url(call.doc_id, filename_of(call)),
             reg_url |-> build_public_reg_url(call.doc_id, filename_of(call))]
  /\ UNCHANGED <<corpus, sheet, last, runs, evidence, verdict, call>>

NextDerive == Derive

SpecDerive == InitDerive /\ [][NextDerive]_vars

(***************************************************************************)
(* Properties of the derivations (checked under SpecDerive).               *)
(***************************************************************************)
Derived == ret # NoCall

IsXmlName == str_lower(call.ext) = XML_EXT
IsLawName == str_lower(call.prefix) = PREFIX_NL
IsRegName == str_lower(call.prefix) = PREFIX_SF

\* C15 (as stated): a name whose suffix is absent or zero gives the identifier
\* <kind>/<YYYY-MM-DD> with nothing after the date.
C15_NoSuffixGivesBareId ==
  (Derived /\ IsXmlName /\ call.suffix.n = <<>>) =>
    /\ IsLawName => ret.law_id = KIND_LOV \o call.date.iso
    /\ IsRegName => ret.reg_id = KIND_FORSKRIFT \o call.date.iso

\* C16: a name with a non-zero suffix n, in any letter case, gives the
\* identifier <kind>/<YYYY-MM-DD>-<n without leading zeros>; the url is the
\* base path followed by that identifier, whatever identifier is declared.
C16_SuffixGivesIdAndUrl ==
  (Derived /\ IsXmlName /\ call.suffix.n # <<>>) =>
    /\ IsLawName =>
         /\ ret.law_id = KIND_LOV \o call.date.iso \o <<"-">> \o call.suffix.n
         /\ ret.law_url = BASE_URL \o DIR_NL \o ret.law_id
    /\ IsRegName =>
         /\ ret.reg_id = KIND_FORSKRIFT \o call.date.iso \o <<"-">> \o call.suffix.n
         /\ ret.reg_url = BASE_URL \o DIR_SF \o ret.reg_id

\* C16 witness: NL-20240115-03.XML in a directory, with another identifier
\* declared in the document.
C16_Witness ==
  /\ Derived
  /\ call.prefix = <<"N", "L">>
  /\ call.ext = <<".", "X", "M", "L">>
  /\ call.dir # <<>>
  /\ call.suffix.text = <<"-", "0", "3">>
  /\ call.doc_id = DOC_NL_LOV
  /\ ret.law_id = KIND_LOV \o call.date.iso \o <<"-", "3">>
  /\ ret.law_url = BASE_URL \o DIR_NL \o ret.law_id

(***************************************************************************)
(* The handler specification: one GET request.  The archives hold the      *)
(* documents of the corpus; at most one law and one regulation are         *)
(* malformed, so that parsing them raises; the sheet holds what an earlier *)
(* run wrote; at most one ledger call of the run raises; the credential of *)
(* the ledger service (GOOGLE_SA_JSON) is set or missing.                  *)
(***************************************************************************)
\* mutant: the loop left at the first document that raises
RECURSIVE parse_documents_aborting(_, _, _, _)
parse_documents_aborting(files, malformed, i, parsed) ==
  IF i > Len(files) \/ i \in malformed THEN parsed
  ELSE parse_documents_aborting(files, malformed, i + 1, Append(parsed, files[i]))

\* for name, blob in files.items(): try: <parse, derive>; <append the item>
\* except Exception: log.  The append is the last statement of the try
\* body, so a document that raises leaves the list as it was.
RECURSIVE parse_documents(_, _, _, _)
parse_documents(files, malformed, i, parsed) ==
  IF i > Len(files) THEN parsed
  ELSE parse_documents(files, malformed, i + 1,
                       IF i \in malformed THEN parsed ELSE Append(parsed, files[i]))

\* the ledger calls of run_scrape, in the order it issues them
LedgerCalls ==
  <<"get_sheet_id", "get_last_row", "read_rows", "insert_rows", "write_values",
    "color_orange", "color_black">>

NoFailure == "none"

\* what run_scrape does before its first ledger call, in the order of its
\* statements: the two downloads, the two extractions, the two parse loops,
\* then the client of the ledger service, which needs the credential
WorkSteps ==
  <<"download_laws", "download_regs", "extract_laws", "extract_regs", "parse_regs",
    "parse_laws", "sheets_service">>

\* mutant: a call that raises is passed over and the run goes on
RECURSIVE issued_calls_swallowing(_, _)
issued_calls_swallowing(due, failing) ==
  IF due = <<>> THEN <<>>
  ELSE <<Head(due)>> \o issued_calls_swallowing(Tail(due), failing)

\* the .execute() calls that the run issues, of those it would issue if
\* none raised: run_scrape has no try/except around its calls and no second
\* attempt, so the call that raises is the last one
RECURSIVE issued_calls(_, _)
issued_calls(due, failing) ==
  IF due = <<>> THEN <<>>
  ELSE IF Head(due) = failing THEN <<Head(due)>>
  ELSE <<Head(due)>> \o issued_calls(Tail(due), failing)

\* mutant: the cell-value batch sent before the row-insertion batch
due_calls_values_first(sh, plan) ==
  LET needed(name) ==
        CASE name = "read_rows" -> get_last_row(sh) >= FIRST_ROW
          [] name = "insert_rows" -> plan.insert_ops_existing \o plan.append_op # <<>>
          [] name = "write_values" -> plan.segments_existing \o plan.segments_append # <<>>
          [] name = "color_orange" -> plan.ambiguous_rows # <<>>
          [] name = "color_black" -> plan.stale_rows # <<>>
          [] OTHER -> TRUE
  IN SelectSeq(<<"get_sheet_id", "get_last_row", "read_rows", "write_values",
                 "insert_rows", "color_orange", "color_black">>, needed)

\* the calls a run with this plan reaches: each function returns before its
\* call when it has nothing to read, insert, write or colour
due_calls(sh, plan) ==
  LET needed(name) ==
        CASE name = "read_rows" -> get_last_row(sh) >= FIRST_ROW
          [] name = "insert_rows" -> plan.insert_ops_existing \o plan.append_op # <<>>
          [] name = "write_values" -> plan.segments_existing \o plan.segments_append # <<>>
          [] name = "color_orange" -> plan.ambiguous_rows # <<>>
          [] name = "color_black" -> plan.stale_rows # <<>>
          [] OTHER -> TRUE
  IN SelectSeq(LedgerCalls, needed)

\* run_scrape with one step that raises: the steps taken, the ledger calls
\* among them and what they leave on the sheet; a call that raises changes
\* nothing on the sheet
ledger_calls(sh, plan, failing) ==
  LET steps == issued_calls(WorkSteps \o due_calls(sh, plan), failing)
      is_call(name) == name \in Range(LedgerCalls)
      calls == SelectSeq(steps, is_call)
      done(name) == name \in Range(calls) \ {failing}
      g0 == [i \in 1..Len(sh) |-> [row |-> sh[i], src |-> i + TEMPLATE_ROW]]
      g1 == IF done("insert_rows")
            THEN batch_insert_rows_with_format(g0, plan.insert_ops_existing, plan.append_op)
            ELSE g0
      g2 == IF done("write_values")
            THEN batch_write_segments_values(g1, plan.segments_existing,
                                             plan.segments_append, plan.insert_ops_existing)
            ELSE g1
      g3 == IF done("color_orange") THEN color_rows(g2, plan.ambiguous_rows, "orange")
            ELSE g2
      g4 == IF done("color_black") THEN color_rows(g3, plan.stale_rows, "black") ELSE g3
  IN [ steps |-> steps,
       calls |-> calls,
       raised |-> IF failing \in Range(steps) THEN failing ELSE NoFailure,
       grid |-> g4,
       planned |-> failing \notin Range(steps) \cap {"sheets_service", "get_sheet_id",
                                                      "get_last_row", "read_rows"},
       plan |-> plan ]

\* run_scrape: the two parse loops, then the reads, the plan and the writes.
\* sheets_service raises ValueError when GOOGLE_SA_JSON is empty or unset.
run_scrape(sh, laws_files, regs_files, malformed_laws, malformed_regs, credential, failing) ==
  ledger_calls(sh,
               run_plan(sh, parse_documents(laws_files, malformed_laws, 1, <<>>),
                        parse_documents(regs_files, malformed_regs, 1, <<>>)),
               IF credential THEN failing ELSE "sheets_service")

\* the sheet that a clean run on the picked documents leaves
sheet_after(c, picked) ==
  LET plan == run_plan(<<>>, Pick(c.laws, picked[1], 1), Pick(c.regs, picked[2], 1))
      grid == run_calls(<<>>, plan)
  IN [i \in 1..Len(grid) |-> grid[i].row]

\* what the earlier run saw: nothing, the first law alone, every document
EarlierPicks == { <<{}, {}>>, <<{1}, {}>>, <<{1, 2, 3}, {1, 2}>> }

\* no document, or one, of an archive of n documents
AtMostOne(n) == {{}} \cup {{i} : i \in 1..n}

InitHandler ==
  /\ corpus \in Corpora
  /\ \E picked \in EarlierPicks : sheet = sheet_after(corpus, picked)
  /\ \E ml \in AtMostOne(Len(corpus.laws)), mr \in AtMostOne(Len(corpus.regs)),
        f \in Range(LedgerCalls) \cup {NoFailure}, cr \in BOOLEAN :
       call = [prior |-> sheet, malformed_laws |-> ml, malformed_regs |-> mr, failing |-> f,
               credential |-> cr]
  /\ last = NoRun
  /\ runs = 0
  /\ evidence = NoEvidence
  /\ verdict = NoEvidence
  /\ ret = NoCall

\* handler.do_GET: run_scrape, then 200 with the summary, or 500 with the
\* error of the exception that left run_scrape
do_GET ==
  /\ ret = NoCall
  /\ call # NoCall
  /\ \E run \in {run_scrape(sheet, corpus.laws, corpus.regs, call.malformed_laws,
                             call.malformed_regs, call.credential, call.failing)} :
        /\ sheet' = [i \in 1..Len(run.grid) |-> run.grid[i].row]
        /\ last' = IF run.planned THEN with_origin(run.plan, run.grid) ELSE NoRun
        /\ ret' = IF run.raised = NoFailure
                  THEN [status |-> 200, body |-> run.plan.result, calls |-> run.calls,
                        steps |-> run.steps]
                  ELSE [status |-> 500, body |-> [error |-> run.raised],
                        calls |-> run.calls, steps |-> run.steps]
  /\ runs' = runs + 1
  /\ UNCHANGED <<corpus, evidence, verdict, call>>

NextHandler == do_GET

SpecHandler == InitHandler /\ [][NextHandler]_vars

(***************************************************************************)
(* Properties of the handler (checked under SpecHandler).                  *)
(***************************************************************************)
Handled == ret # NoCall

\* the documents of an archive without the malformed ones
WellFormed(files, malformed) == Pick(files, (1..Len(files)) \ malformed, 1)

\* the plan of a run, without the account of where the rows came from
PlanOf(l) == [f \in DOMAIN l \ {"origin"} |-> l[f]]

\* C19: with a malformed document in an archive the run is not aborted: it
\* plans, and without a ledger failure writes and answers, exactly what it
\* would on the archives without that document, and the malformed document
\* is no candidate law and no parsed regulation.
C19_ParseFailureSkipsDocument ==
  (Handled /\ call.credential /\ call.malformed_laws \cup call.malformed_regs # {}) =>
    LET laws == WellFormed(corpus.laws, call.malformed_laws)
        regs == WellFormed(corpus.regs, call.malformed_regs)
        plan == run_plan(call.prior, laws, regs)
        grid == run_calls(call.prior, plan)
    IN /\ last.ran => PlanOf(last) = plan
       /\ last.ran <=> call.failing \notin {"get_sheet_id", "get_last_row", "read_rows"}
                       \/ (call.failing = "read_rows" /\ call.prior = <<>>)
       /\ \A i \in call.malformed_laws : corpus.laws[i] \notin Range(last.candidate_laws)
       /\ \A i \in call.malformed_regs : corpus.regs[i] \notin Range(last.regs)
       /\ call.failing = NoFailure =>
            /\ ret.status = 200
            /\ ret.body = plan.result
            /\ sheet = [i \in 1..Len(grid) |-> grid[i].row]

\* C19 witness: the second law is malformed and has a row from the earlier
\* run; the run answers 200, keeps the other two laws and blackens that row.
C19_Witness ==
  /\ Handled
  /\ call.credential
  /\ call.malformed_laws = {2}
  /\ call.malformed_regs = {}
  /\ call.failing = NoFailure
  /\ call.prior # <<>>
  /\ ret.status = 200
  /\ Len(last.candidate_laws) = 2
  /\ corpus.laws[3] \in Range(last.candidate_laws)
  /\ last.stale_rows # <<>>

\* C20: when a ledger call of the run raises, it is the last call issued, it
\* is issued once, the sheet is as the calls before it left it, and the
\* answer is 500 with the error, not the summary.
C20_LedgerFailureIsFatal ==
  (Handled /\ call.failing \in Range(ret.calls)) =>
    /\ ret.calls[Len(ret.calls)] = call.failing
    /\ Cardinality({i \in 1..Len(ret.calls) : ret.calls[i] = call.failing}) = 1
    /\ ret.status = 500
    /\ ret.body = [error |-> call.failing]
    /\ call.failing \in {"get_sheet_id", "get_last_row", "read_rows", "insert_rows"}
         => sheet = call.prior
    /\ call.failing \in {"get_sheet_id", "get_last_row", "read_rows"} => ~last.ran

\* C20 witness: the cell-value batch raises after the row-insertion batch
\* went through; rows were inserted, nothing was coloured, the answer is 500.
C20_Witness ==
  /\ Handled
  /\ call.failing = "write_values"
  /\ ret.calls = <<"get_sheet_id", "get_last_row", "read_rows", "insert_rows", "write_values">>
  /\ ret.status = 500
  /\ Len(sheet) > Len(call.prior)
  /\ last.ambiguous_rows \o last.stale_rows # <<>>

\* C21 (as stated): with the credential missing the run fails before any
\* archive is fetched, before any document is parsed and before any ledger
\* call.
C21_MissingCredentialBeforeAnyWork ==
  (Handled /\ ~call.credential) =>
    /\ ret.status = 500
    /\ ret.body = [error |-> "sheets_service"]
    /\ ret.calls = <<>>
    /\ Range(ret.steps) \cap {"download_laws", "download_regs", "extract_laws",
                              "extract_regs", "parse_regs", "parse_laws"} = {}

\* the calls that read the ledger, and the calls that change it
ReadCalls == {"get_sheet_id", "get_last_row", "read_rows"}
BatchCalls == {"insert_rows", "write_values"}

\* the tracked values of a row, without its background
cells_of_row(row) == [title |-> row.title, date |-> row.date, url |-> row.url, m |-> row.m, e |-> row.e]

CleanRun == Handled /\ ret.status = 200

CallIndexes(names) == {i \in 1..Len(ret.calls) : ret.calls[i] \in names}

\* C22 (as stated): in every run no read of the ledger is repeated, every
\* read precedes the first mutation, and the rows and cell values are
\* changed by exactly two calls, the row-insertion batch and then the
\* cell-value batch.
C22_OneReadTwoBatches ==
  CleanRun =>
    /\ \A i, j \in CallIndexes(ReadCalls) : ret.calls[i] = ret.calls[j] => i = j
    /\ \A i \in CallIndexes(ReadCalls) : \A j \in 1..Len(ret.calls) :
          ret.calls[j] \notin ReadCalls => i < j
    /\ SelectSeq(ret.calls, LAMBDA c : c \in BatchCalls) = <<"insert_rows", "write_values">>

\* C22 (amended): the ledger is read in one phase, by the sheet-id call, the
\* last-row call and, when a row is in use, the rows call, once each and
\* before any call that changes the ledger; the plan is the plan computed
\* from the sheet as it was read; a run that plans no row sends no batch,
\* and any other run sends exactly the row-insertion batch and then the
\* cell-value batch, each once, before any marking call.
C22_ReadPlanWrite ==
  Handled =>
    /\ NoDuplicates(ret.calls)
    /\ \A i \in CallIndexes(ReadCalls) : \A j \in 1..Len(ret.calls) :
          ret.calls[j] \notin ReadCalls => i < j
    /\ \A i \in CallIndexes(BatchCalls) : \A j \in 1..Len(ret.calls) :
          ret.calls[j] \in {"color_orange", "color_black"} => i < j
    /\ \A i \in CallIndexes({"insert_rows"}) : \A j \in CallIndexes({"write_values"}) : i < j
    /\ last.ran =>
          /\ last.prev = call.prior
          /\ PlanOf(last) = run_plan(call.prior,
                                     WellFormed(corpus.laws, call.malformed_laws),
                                     WellFormed(corpus.regs, call.malformed_regs))
    /\ CleanRun =>
          /\ SelectSeq(ret.calls, LAMBDA c : c \in ReadCalls)
               = IF call.prior = <<>> THEN <<"get_sheet_id", "get_last_row">>
                 ELSE <<"get_sheet_id", "get_last_row", "read_rows">>
          /\ SelectSeq(ret.calls, LAMBDA c : c \in BatchCalls)
               = IF ret.body.rows_written = 0 THEN <<>> ELSE <<"insert_rows", "write_values">>
          /\ ret.body.rows_written = 0 => [i \in 1..Len(sheet) |-> cells_of_row(sheet[i])]
                                           = [i \in 1..Len(call.prior) |-> cells_of_row(call.prior[i])]
          /\ Len(sheet) = Len(call.prior) + ret.body.rows_written

\* C22 witness: a clean run on a sheet in use that reads, inserts rows under
\* an existing block, writes them and then marks a row.
C22_Witness ==
  /\ CleanRun
  /\ call.prior # <<>>
  /\ last.insert_ops_existing # <<>>
  /\ SelectSeq(ret.calls, LAMBDA c : c \notin {"color_orange", "color_black"})
       = <<"get_sheet_id", "get_last_row", "read_rows", "insert_rows", "write_values">>
  /\ Len(ret.calls) > 5

====
